---- MODULE Spec2Model ----
(***************************************************************************)
(* Model of the fantasy-football platform adapters: the ESPN session       *)
(* (authenticate / isAuthenticated / persisted record), the ESPN scrape    *)
(* path (getTeamFromUrl, parseTeamPage), the three getTeamLineup           *)
(* normalisers and the unified dispatcher (connectPlatform).               *)
(*                                                                         *)
(* Strings that the code builds by concatenation are sequences of string   *)
(* fragments; an absent (null / undefined / empty) string is <<>>.         *)
(* Points are integers in tenths of a point.  Time is counted in days.     *)
(***************************************************************************)
EXTENDS Integers, Sequences, FiniteSets, TLC

VARIABLES now, authSession, storage, authCalls, yahooToken, appStore, syncCalls, input, last

vars == <<now, authSession, storage, authCalls, yahooToken, appStore, syncCalls, input, last>>

(***************************************************************************)
(* Bounds                                                                  *)
(***************************************************************************)
MaxTime == 8
MaxRows == 2
MaxRoster == 2
MaxStarters == 10

(***************************************************************************)
(* Program constants                                                       *)
(***************************************************************************)
SessionTTL == 7

Usernames == {"u1", "u2"}

\* Set-Cookie headers a login response can carry: absent, or a list of
\* cookies, each a list of ';'-separated segments.
NoHeader == <<"no-set-cookie">>
SetCookieHeaders ==
  { NoHeader,
    <<>>,
    << <<"SWID=1", "Path=/">> >>,
    << <<"SWID=1", "Path=/">>, <<"espn_s2=2">> >> }

LoginStatuses == {200, 201, 302, 401}

(***************************************************************************)
(* Values                                                                  *)
(***************************************************************************)
NoSession == [none |-> TRUE]
NoRecord == <<>>
Idle == [stage |-> "idle"]
NoInput == [none |-> TRUE]

\* The store as created: no teams, no lineups, not loading, no error
NoError == <<>>
InitialStore == [teams |-> <<>>, lineups |-> <<>>, isLoading |-> FALSE, error |-> NoError]

\* The callers of syncTeam (two places of the page can start a sync) and
\* what each has in flight
SyncCallers == {"c1", "c2"}
NoSync == [none |-> TRUE]
NoSyncs == [c \in SyncCallers |-> NoSync]
Fail == [fail |-> TRUE]

Err(msg) == [error |-> msg]

NotAuthMsg == <<"Not authenticated with ESPN. Please log in first.">>

Str(x) == <<"Error: ">> \o x

\* What an operation left behind: its name, whether it returned or threw,
\* the value or the error, the network requests it issued (in order) and
\* the number of localStorage.removeItem calls it made.
Done(op, outcome, value, net, removes) ==
  [op |-> op, outcome |-> outcome, value |-> value, net |-> net, removes |-> removes]

(***************************************************************************)
(* ESPN session                                                            *)
(***************************************************************************)
\* JSON.stringify(this.authSession) under the key 'espn_auth_session'
Stringify(s) == <<"espn_auth_session", s.isAuthenticated, s.cookies, s.expiresAt, s.username>>

\* JSON.parse(saved)
Parse(r) == [isAuthenticated |-> r[2], cookies |-> r[3], expiresAt |-> r[4], username |-> r[5]]

\* saveSession that writes nothing
saveSessionNever(sess, store) == store

\* saveSession that keeps a record already present
saveSessionKeepFirst(sess, store) ==
  IF sess # NoSession /\ store = NoRecord THEN Stringify(sess) ELSE store

\* saveSession: writes the record when a session exists
saveSession(sess, store) == IF sess # NoSession THEN Stringify(sess) ELSE store

\* clearSession: this.authSession = null; localStorage.removeItem(...)
clearSession == [session |-> NoSession, store |-> NoRecord, removes |-> 1]

\* loadSavedSession that drops a record on the day it expires
loadSavedSessionEarly(store, t) ==
  IF store = NoRecord
    THEN [session |-> NoSession, store |-> store, removes |-> 0]
    ELSE IF t >= Parse(store).expiresAt
           THEN clearSession
           ELSE [session |-> Parse(store), store |-> store, removes |-> 0]

\* loadSavedSession, run by the constructor
loadSavedSession(store, t) ==
  IF store = NoRecord
    THEN [session |-> NoSession, store |-> store, removes |-> 0]
    ELSE IF t > Parse(store).expiresAt
           THEN clearSession
           ELSE [session |-> Parse(store), store |-> store, removes |-> 0]

\* isAuthenticated that reports an expired session without clearing it
isAuthenticatedKeepsRecord(sess, store, t) ==
  IF sess = NoSession
    THEN [ret |-> FALSE, session |-> sess, store |-> store, removes |-> 0]
    ELSE IF t > sess.expiresAt
           THEN [ret |-> FALSE, session |-> sess, store |-> store, removes |-> 0]
           ELSE [ret |-> sess.isAuthenticated, session |-> sess, store |-> store, removes |-> 0]

\* isAuthenticated: the value returned and the state it leaves
isAuthenticated(sess, store, t) ==
  IF sess = NoSession
    THEN [ret |-> FALSE, session |-> sess, store |-> store, removes |-> 0]
    ELSE IF t > sess.expiresAt
           THEN [ret |-> FALSE] @@ clearSession
           ELSE [ret |-> sess.isAuthenticated, session |-> sess, store |-> store, removes |-> 0]

\* extractCookies: first segment of every Set-Cookie header, joined
extractCookies(headers) ==
  LET setCookie == IF headers = NoHeader THEN <<>> ELSE headers
  IN  [i \in 1..Len(setCookie) |-> setCookie[i][1]]

\* The session authenticate creates on a 200/302 answer
NewSession(username, headers, t) ==
  [isAuthenticated |-> TRUE,
   cookies |-> extractCookies(headers),
   expiresAt |-> t + SessionTTL,
   username |-> username]

\* every status the transport lets through counts as a login
LoginSucceededAnyStatus(status) == status < 400

LoginSucceeded(status) == status = 302 \/ status = 200

AuthFailedMsg(inner) == <<"ESPN authentication failed: ">> \o Str(inner)

(***************************************************************************)
(* ESPN scrape: team URL, proxy responses, page parsing                    *)
(***************************************************************************)
\* A team URL is its query string: the values URLSearchParams.get returns
\* (<<>> when the parameter is missing).
TeamUrls ==
  { [leagueId |-> <<"45107891">>, teamId |-> <<"7">>, season |-> <<>>],
    [leagueId |-> <<"45107891">>, teamId |-> <<"7">>, season |-> <<"2024">>],
    [leagueId |-> <<"45107891">>, teamId |-> <<>>, season |-> <<>>] }

\* new Date().getFullYear().toString()
CurrentYear == <<"2025">>

ParseInt(s) ==
  CASE s = <<"2025">> -> 2025
    [] s = <<"2024">> -> 2024
    [] OTHER -> -1

\* The list of names the name probe searches for
playerNames ==
  <<"Jalen Hurts", "Kyler Murray", "Kyren Williams", "Ladd McConkey",
    "Marvin Harrison Jr.", "Christian McCaffrey", "Jonathan Taylor",
    "David Montgomery", "Mark Andrews", "Lions">>

ProbeNames == {"Jalen Hurts", "Lions"}

\* A table row of class Table__TR: a header/total/bench/IR row, a row
\* without an anchor, or a player row (anchor text, two decimals).
RowKinds == {"header", "plain", "player"}
RowSeqs == UNION {[1..n -> RowKinds] : n \in 0..MaxRows}

\* A response body, described by what the code's string searches and
\* regular expressions find in it.
Bodies ==
  [doctype : BOOLEAN, login : BOOLEAN, signin : BOOLEAN,
   initState : {"none", "valid", "invalid"},
   appData : {"none", "valid"},
   teamName : {<<>>, <<"My Team">>},
   record : {<<>>, <<5, 2>>},
   probe : SUBSET ProbeNames,
   rows : RowSeqs]

\* response.data that is not a string (the proxy answered parsed JSON)
NonString == [nonString |-> TRUE]

RECURSIVE SumProjected(_)
SumProjected(ps) ==
  IF ps = <<>> THEN 0 ELSE Head(ps).projectedPoints + SumProjected(Tail(ps))

RECURSIVE SumPoints(_)
SumPoints(ps) ==
  IF ps = <<>> THEN 0 ELSE Head(ps).points + SumPoints(Tail(ps))

ScrapedPlayer(id, name, position, team, points, projected) ==
  [id |-> id, name |-> name, position |-> position, team |-> team,
   points |-> points, projectedPoints |-> projected, status |-> "active"]

createMockTeamData(leagueId, teamId, season) ==
  [id |-> teamId,
   name |-> <<"ESPN Team ">> \o teamId,
   platform |-> "ESPN",
   leagueId |-> leagueId,
   season |-> ParseInt(season),
   record |-> [wins |-> 3, losses |-> 1, ties |-> 0],
   lineup |->
     ("QB" :> <<ScrapedPlayer(<<"1">>, "Josh Allen", "QB", "BUF", 254, 221)>>)
     @@ ("RB" :> <<ScrapedPlayer(<<"2">>, "Christian McCaffrey", "RB", "SF", 182, 168),
                   ScrapedPlayer(<<"3">>, "Derrick Henry", "RB", "TEN", 156, 142)>>)
     @@ ("WR" :> <<ScrapedPlayer(<<"4">>, "Tyreek Hill", "WR", "MIA", 128, 115),
                   ScrapedPlayer(<<"5">>, "Davante Adams", "WR", "LV", 104, 98)>>)
     @@ ("TE" :> <<ScrapedPlayer(<<"6">>, "Travis Kelce", "TE", "KC", 82, 75)>>)
     @@ ("FLEX" :> <<>>)
     @@ ("K" :> <<ScrapedPlayer(<<"7">>, "Justin Tucker", "K", "BAL", 60, 55)>>)
     @@ ("DEF" :> <<ScrapedPlayer(<<"8">>, "Buffalo Bills", "D/ST", "BUF", 42, 38)>>)
     @@ ("BENCH" :> <<>>),
   totalProjectedPoints |-> 904]

getMockPlayers ==
  <<ScrapedPlayer(<<"1">>, "Josh Allen", "QB", "BUF", 254, 221),
    ScrapedPlayer(<<"2">>, "Christian McCaffrey", "RB", "SF", 182, 168)>>

\* extractTeamName: the first pattern that matches, 'ESPN Team' otherwise
extractTeamName(html) ==
  IF html.teamName # <<>> THEN html.teamName ELSE <<"ESPN Team">>

\* extractRecord: "W-L" or "W-L-T" text, the placeholder record otherwise
extractRecord(html) ==
  IF Len(html.record) >= 2
    THEN [wins |-> html.record[1], losses |-> html.record[2],
          ties |-> IF Len(html.record) >= 3 THEN html.record[3] ELSE 0]
    ELSE [wins |-> 3, losses |-> 1, ties |-> 0]

\* extractJSONData: window.__INITIAL_STATE__ first, then window.__APP_DATA__;
\* a JSON.parse failure is caught and gives null
NoJson == <<>>
extractJSONData(html) ==
  IF html.initState # "none"
    THEN IF html.initState = "valid" THEN <<"__INITIAL_STATE__">> ELSE NoJson
    ELSE IF html.appData # "none"
           THEN <<"__APP_DATA__">>
           ELSE NoJson

\* The name probe: one player per known name found in the page, in the
\* order of playerNames, numbered espn_1, espn_2, ...
RECURSIVE ProbePlayers(_, _, _)
ProbePlayers(html, i, acc) ==
  IF i > Len(playerNames) THEN acc
  ELSE IF playerNames[i] \in html.probe
         THEN ProbePlayers(html, i + 1,
                Append(acc, ScrapedPlayer(<<"espn_", Len(acc) + 1>>, playerNames[i], "UNK", "UNK", 0, 0)))
         ELSE ProbePlayers(html, i + 1, acc)

\* Table rows: header-like rows and rows without an anchor are skipped
RECURSIVE RowPlayers(_, _, _)
RowPlayers(rows, i, acc) ==
  IF i > Len(rows) THEN acc
  ELSE IF rows[i] = "player"
         THEN RowPlayers(rows, i + 1,
                Append(acc, ScrapedPlayer(<<"espn_", Len(acc) + 1>>, "Row Player", "RB", "UNK", 30, 125)))
         ELSE RowPlayers(rows, i + 1, acc)

\* extractPlayers: the name probe; then the table rows; then mock players
extractPlayers(html) ==
  LET probed == ProbePlayers(html, 1, <<>>)
  IN  IF Len(probed) > 0
        THEN probed
        ELSE LET rowed == RowPlayers(html.rows, 1, <<>>)
             IN  IF Len(rowed) > 0 THEN rowed ELSE getMockPlayers

parseJSONTeamData(jsonData, leagueId, teamId, season, teamName) ==
  LET mockData == createMockTeamData(leagueId, teamId, season)
  IN  [mockData EXCEPT !.name = IF teamName # <<>> THEN teamName ELSE mockData.name]

HtmlTeam(players, teamName, record, leagueId, teamId, season, t) ==
  [id |-> <<"espn_">> \o teamId,
   name |-> teamName,
   platform |-> "ESPN",
   leagueId |-> leagueId,
   leagueName |-> <<"ESPN League ">> \o leagueId,
   ownerId |-> "current_user",
   record |-> record,
   season |-> ParseInt(season),
   isActive |-> TRUE,
   lastSyncDate |-> t,
   lineup |-> [id |-> <<"lineup_">> \o teamId,
               teamId |-> <<"espn_">> \o teamId,
               week |-> 1,
               players |-> players,
               totalProjectedPoints |-> SumProjected(players),
               totalActualPoints |-> SumPoints(players),
               lastUpdated |-> t]]

parseTeamPage(html, leagueId, teamId, season, t) ==
  LET teamName == extractTeamName(html)
      record == extractRecord(html)
      players == extractPlayers(html)
      jsonData == extractJSONData(html)
      mockData == createMockTeamData(leagueId, teamId, season)
  IN  IF jsonData # NoJson
        THEN parseJSONTeamData(jsonData, leagueId, teamId, season, teamName)
        ELSE IF Len(players) > 0 /\ teamName # <<"ESPN Team">>
               THEN HtmlTeam(players, teamName, record, leagueId, teamId, season, t)
               ELSE [mockData EXCEPT !.name = IF teamName # <<"ESPN Team">>
                                                THEN teamName ELSE mockData.name]

\* The login-page test of getTeamFromUrl
GotLoginPage(html) == html.doctype /\ (html.login \/ html.signin)

ProxyA == "GET cors-anywhere +Cookie"
ProxyB == "GET allorigins"

\* What getTeamFromUrl does once a proxy has answered
AfterFetch(body, leagueId, teamId, season, t) ==
  IF body = NonString
    THEN createMockTeamData(leagueId, teamId, season)
    ELSE IF GotLoginPage(body)
           THEN createMockTeamData(leagueId, teamId, season)
           ELSE parseTeamPage(body, leagueId, teamId, season, t)

\* a fetch that asks the second proxy although the first one answered
FetchTeamBothProxies(state, t, teamUrl, respA, respB) ==
  LET leagueId == teamUrl.leagueId
      teamId == teamUrl.teamId
      season == IF teamUrl.season # <<>> THEN teamUrl.season ELSE CurrentYear
  IN  IF leagueId = <<>> \/ teamId = <<>>
        THEN [outcome |-> "return",
              value |-> createMockTeamData(leagueId, teamId, season),
              net |-> <<>>] @@ state
        ELSE [outcome |-> "return",
              value |-> IF respA # Fail THEN AfterFetch(respA, leagueId, teamId, season, t)
                        ELSE IF respB # Fail THEN AfterFetch(respB, leagueId, teamId, season, t)
                        ELSE createMockTeamData(leagueId, teamId, season),
              net |-> <<ProxyA, ProxyB>>] @@ state

\* The try block of getTeamFromUrl and its catch: every failure inside
\* (bad URL, both proxies down, login page, parser error) ends in mock data
FetchTeam(state, t, teamUrl, respA, respB) ==
  LET leagueId == teamUrl.leagueId
      teamId == teamUrl.teamId
      season == IF teamUrl.season # <<>> THEN teamUrl.season ELSE CurrentYear
  IN  IF leagueId = <<>> \/ teamId = <<>>
        THEN [outcome |-> "return",
              value |-> createMockTeamData(leagueId, teamId, season),
              net |-> <<>>] @@ state
        ELSE IF respA # Fail
               THEN [outcome |-> "return",
                     value |-> AfterFetch(respA, leagueId, teamId, season, t),
                     net |-> <<ProxyA>>] @@ state
               ELSE IF respB # Fail
                      THEN [outcome |-> "return",
                            value |-> AfterFetch(respB, leagueId, teamId, season, t),
                            net |-> <<ProxyA, ProxyB>>] @@ state
                      ELSE [outcome |-> "return",
                            value |-> createMockTeamData(leagueId, teamId, season),
                            net |-> <<ProxyA, ProxyB>>] @@ state

\* getTeamFromUrl without the session test in front of the try block
getTeamFromUrlUngated(sess, store, t, teamUrl, respA, respB) ==
  LET auth == isAuthenticated(sess, store, t)
  IN  FetchTeam([session |-> auth.session, store |-> auth.store, removes |-> auth.removes],
                t, teamUrl, respA, respB)

\* getTeamFromUrl(teamUrl), given what the two proxies answer
getTeamFromUrl(sess, store, t, teamUrl, respA, respB) ==
  LET auth == isAuthenticated(sess, store, t)
      state == [session |-> auth.session, store |-> auth.store, removes |-> auth.removes]
  IN  IF ~auth.ret
        THEN [outcome |-> "throw", value |-> Err(NotAuthMsg), net |-> <<>>] @@ state
        ELSE FetchTeam(state, t, teamUrl, respA, respB)

\* refreshTeamData(teamUrl)
refreshTeamData(sess, store, t, teamUrl, respA, respB) ==
  LET auth == isAuthenticated(sess, store, t)
  IN  IF ~auth.ret
        THEN [outcome |-> "throw", value |-> Err(NotAuthMsg), net |-> <<>>,
              session |-> auth.session, store |-> auth.store, removes |-> auth.removes]
        ELSE getTeamFromUrl(auth.session, auth.store, t, teamUrl, respA, respB)

(***************************************************************************)
(* Values of loosely typed fields                                          *)
(***************************************************************************)
\* Credential values: a field of the credentials map is missing, or holds a
\* string; the map itself may be null.
Missing == [missing |-> TRUE]
NullCredentials == [null |-> TRUE]
S(x) == [string |-> x]

Truthy(v) == v # Missing /\ v # S("")

\* `${v}` of a credential value
Template(v) ==
  IF v = Missing THEN <<"undefined">>
  ELSE IF "number" \in DOMAIN v THEN <<ToString(v.number)>>
  ELSE <<v.string>>

N(x) == [number |-> x]

\* find: the first element satisfying the test, or Missing
RECURSIVE FindBy(_, _, _)
FindBy(seq, field, v) ==
  IF seq = <<>> THEN Missing
  ELSE IF Head(seq)[field] = v THEN Head(seq)
  ELSE FindBy(Tail(seq), field, v)

(***************************************************************************)
(* ESPN JSON API (no session involved)                                     *)
(***************************************************************************)
\* `undefined` of an optional number (projectedPoints, appliedTotal)
Undefined == -1

OrZero(x) == IF x = Undefined THEN 0 ELSE x

\* Upstream league documents of the ESPN JSON API: a roster entry carries
\* the player id, defaultPositionId, lineupSlotId and the projected total.
EspnEntry(pid, pos, slot, proj) ==
  [playerId |-> pid, defaultPositionId |-> pos, lineupSlotId |-> slot,
   injuryStatus |-> "ACTIVE", proTeamId |-> 2, projected |-> proj]

EspnLeagueDoc(entries) ==
  [id |-> 45107891, name |-> "League", seasonId |-> 2025, scoringPeriodId |-> 8,
   teams |-> << [id |-> 7, name |-> "Team Seven",
                 record |-> [wins |-> 4, losses |-> 2, ties |-> 0],
                 roster |-> entries] >>]

EspnApiGet == "GET espn-api league"
EspnProxyGet == "GET allorigins espn-api league"

\* getLeague behind a session gate that is closed
getLeagueGated(leagueId, resp) ==
  [outcome |-> "throw", value |-> Err(NotAuthMsg), net |-> <<>>]

\* getLeague(leagueId, season): one GET, mapped into ESPNLeague
getLeague(leagueId, resp) ==
  IF resp = Fail
    THEN [outcome |-> "throw",
          value |-> Err(<<"Failed to fetch league ">> \o leagueId \o <<": ">> \o Str(<<"Network Error">>)),
          net |-> <<EspnApiGet>>]
    ELSE [outcome |-> "return",
          value |-> [id |-> <<ToString(resp.id)>>, name |-> resp.name, season |-> resp.seasonId,
                     scoringPeriodId |-> resp.scoringPeriodId,
                     teams |-> [i \in 1..Len(resp.teams) |->
                                  [id |-> <<ToString(resp.teams[i].id)>>, name |-> resp.teams[i].name,
                                   record |-> resp.teams[i].record,
                                   roster |-> [j \in 1..Len(resp.teams[i].roster) |->
                                                 [id |-> <<ToString(resp.teams[i].roster[j].playerId)>>,
                                                  position |-> resp.teams[i].roster[j].defaultPositionId,
                                                  projectedPoints |-> resp.teams[i].roster[j].projected]]]]],
          net |-> <<EspnApiGet>>]

\* getLeagueWithProxy: the same document behind the allorigins relay; an
\* HTML answer (contents starting with <!DOCTYPE) is an error
HtmlContents == [html |-> TRUE]
getLeagueWithProxy(leagueId, resp) ==
  IF resp = Fail \/ resp = HtmlContents
    THEN [outcome |-> "throw",
          value |-> Err(<<"Failed to fetch league ">> \o leagueId \o <<": ">>
                        \o Str(IF resp = Fail THEN <<"Network Error">>
                                              ELSE <<"ESPN returned HTML instead of JSON.">>)),
          net |-> <<EspnProxyGet>>]
    ELSE [getLeague(leagueId, resp) EXCEPT !.net = <<EspnProxyGet>>]

(***************************************************************************)
(* Lineup normalisation: getTeamLineup of the three adapters               *)
(***************************************************************************)
\* A value of the `players` object: a Player, or an array of Players
Obj(p) == [array |-> FALSE, player |-> p]
Arr(ps) == [array |-> TRUE, items |-> ps]
IsArray(v) == v.array

\* players[k] = v
Put(players, k, v) == (k :> v) @@ players

NoSlot == ""

\* Object.values(players).filter(p => !Array.isArray(p))
\*   .reduce((sum, p) => sum + (p.projectedPoints || 0), 0)
RECURSIVE SumStarting(_, _)
SumStarting(players, keys) ==
  IF keys = {} THEN 0
  ELSE LET k == CHOOSE x \in keys : TRUE
       IN  (IF IsArray(players[k]) THEN 0 ELSE OrZero(players[k].player.projectedPoints))
           + SumStarting(players, keys \ {k})

\* The total without the Array.isArray filter: bench players are added in
RECURSIVE SumEverything(_, _)
SumEverything(players, keys) ==
  IF keys = {} THEN 0
  ELSE LET k == CHOOSE x \in keys : TRUE
       IN  (IF IsArray(players[k])
              THEN SumProjected([i \in 1..Len(players[k].items) |->
                                   [projectedPoints |-> OrZero(players[k].items[i].projectedPoints)]])
              ELSE OrZero(players[k].player.projectedPoints))
           + SumEverything(players, keys \ {k})

totalProjectedPointsUnfiltered(players) == SumEverything(players, DOMAIN players)

totalProjectedPoints(players) == SumStarting(players, DOMAIN players)

\* a Lineup whose id carries the time it was built
LineupStamped(prefix, teamId, week, season, players, t) ==
  [id |-> <<prefix>> \o teamId \o <<"-", ToString(week), "-", ToString(t)>>,
   teamId |-> teamId,
   week |-> week,
   season |-> season,
   players |-> players,
   totalProjectedPoints |-> totalProjectedPoints(players),
   lastUpdated |-> t]

Lineup(prefix, teamId, week, season, players, t) ==
  [id |-> <<prefix>> \o teamId \o <<"-", ToString(week)>>,
   teamId |-> teamId,
   week |-> week,
   season |-> season,
   players |-> players,
   totalProjectedPoints |-> totalProjectedPoints(players),
   lastUpdated |-> t]

LineupFailed(teamId, inner, net) ==
  [outcome |-> "throw",
   value |-> Err(<<"Failed to fetch lineup for team ">> \o teamId \o <<": ">> \o Str(inner)),
   net |-> net]

mapESPNPosition(positionId) ==
  CASE positionId = 1 -> "QB"
    [] positionId = 2 -> "RB"
    [] positionId = 3 -> "WR"
    [] positionId = 4 -> "TE"
    [] positionId = 5 -> "K"
    [] positionId = 16 -> "DEF"
    [] OTHER -> "UNKNOWN"

mapESPNLineupPosition(slotId) ==
  CASE slotId = 0 -> "QB"
    [] slotId = 1 -> "RB1"
    [] slotId = 2 -> "RB2"
    [] slotId = 3 -> "WR1"
    [] slotId = 4 -> "WR2"
    [] slotId = 5 -> "TE"
    [] slotId = 6 -> "FLEX"
    [] slotId = 7 -> "K"
    [] slotId = 8 -> "DEF"
    [] slotId = 20 -> "BENCH"
    [] OTHER -> NoSlot

teamMap ==
  (1 :> "ATL") @@ (2 :> "BUF") @@ (3 :> "CHI") @@ (4 :> "CIN") @@ (5 :> "CLE") @@ (6 :> "DAL")
  @@ (7 :> "DEN") @@ (8 :> "DET") @@ (9 :> "GB") @@ (10 :> "TEN") @@ (11 :> "IND")
  @@ (12 :> "KC") @@ (13 :> "LV") @@ (14 :> "LAR") @@ (15 :> "MIA") @@ (16 :> "MIN")
  @@ (17 :> "NE") @@ (18 :> "NO") @@ (19 :> "NYG") @@ (20 :> "NYJ") @@ (21 :> "PHI")
  @@ (22 :> "ARI") @@ (23 :> "PIT") @@ (24 :> "LAC") @@ (25 :> "SF") @@ (26 :> "SEA")
  @@ (27 :> "TB") @@ (28 :> "WSH") @@ (29 :> "CAR") @@ (30 :> "JAX") @@ (33 :> "BAL")
  @@ (34 :> "HOU")

mapESPNTeam(teamId) == IF teamId \in DOMAIN teamMap THEN teamMap[teamId] ELSE "UNK"

mapESPNInjuryStatus(status) ==
  CASE status = "ACTIVE" -> "healthy"
    [] status = "QUESTIONABLE" -> "questionable"
    [] status = "DOUBTFUL" -> "doubtful"
    [] status = "OUT" -> "out"
    [] OTHER -> "healthy"

EspnPlayer(entry) ==
  [id |-> <<ToString(entry.playerId)>>,
   position |-> mapESPNPosition(entry.defaultPositionId),
   team |-> mapESPNTeam(entry.proTeamId),
   injuryStatus |-> mapESPNInjuryStatus(entry.injuryStatus),
   projectedPoints |-> entry.projected]

\* roster.forEach(...): every entry in a mapped slot other than BENCH is
\* written to players[slot]
RECURSIVE EspnStarters(_, _)
EspnStarters(roster, players) ==
  IF roster = <<>> THEN players
  ELSE LET lineupPosition == mapESPNLineupPosition(Head(roster).lineupSlotId)
       IN  EspnStarters(Tail(roster),
             IF lineupPosition # NoSlot /\ lineupPosition # "BENCH"
               THEN Put(players, lineupPosition, Obj(EspnPlayer(Head(roster))))
               ELSE players)

IsEspnBench(entry) == entry.lineupSlotId = 20

MapSeq(seq, Op(_)) == [i \in 1..Len(seq) |-> Op(seq[i])]

EspnLineupGet == "GET espn-api league mRoster"

\* data.teams.find(t => t.id.toString() === teamId)
RECURSIVE FindEspnTeam(_, _)
FindEspnTeam(teams, teamId) ==
  IF teams = <<>> THEN Missing
  ELSE IF <<ToString(Head(teams).id)>> = teamId THEN Head(teams)
  ELSE FindEspnTeam(Tail(teams), teamId)

\* ESPNApiService.getTeamLineup(leagueId, teamId, week, season)
espnGetTeamLineup(teamId, week, season, resp, t) ==
  LET team == FindEspnTeam(resp.teams, teamId)
      roster == team.roster
      starters == EspnStarters(roster, <<>>)
      benchPlayers == MapSeq(SelectSeq(roster, IsEspnBench), EspnPlayer)
      players == IF Len(benchPlayers) > 0 THEN Put(starters, "BENCH", Arr(benchPlayers))
                                          ELSE starters
  IN  IF resp = Fail
        THEN LineupFailed(teamId, <<"Network Error">>, <<EspnLineupGet>>)
      ELSE IF team = Missing
        THEN LineupFailed(teamId, <<"Team ">> \o teamId \o <<" not found in league">>,
                          <<EspnLineupGet>>)
      ELSE [outcome |-> "return",
            value |-> Lineup("espn-", teamId, week, season, players, t),
            net |-> <<EspnLineupGet>>]

mapYahooPosition(position) ==
  IF position \in {"QB", "RB", "WR", "TE", "K", "DEF"} THEN position ELSE position

mapYahooLineupPosition(position) ==
  CASE position = "QB" -> "QB"
    [] position = "RB" -> "RB1"
    [] position = "WR" -> "WR1"
    [] position = "TE" -> "TE"
    [] position = "K" -> "K"
    [] position = "DEF" -> "DEF"
    [] position = "W/R/T" -> "FLEX"
    [] position = "BN" -> "BENCH"
    [] OTHER -> NoSlot

mapYahooInjuryStatus(status) ==
  CASE status = "" -> "healthy"
    [] status = "Q" -> "questionable"
    [] status = "D" -> "doubtful"
    [] status = "O" -> "out"
    [] OTHER -> "healthy"

YahooPlayer(playerData) ==
  [id |-> <<ToString(playerData.player_id)>>,
   position |-> mapYahooPosition(playerData.display_position),
   team |-> playerData.editorial_team_abbr,
   injuryStatus |-> mapYahooInjuryStatus(playerData.injury_status),
   projectedPoints |-> playerData.projected]

\* roster.forEach(...): every player whose mapped slot is not null and not
\* 'BN' is written to players[slot]
RECURSIVE YahooStarters(_, _)
YahooStarters(roster, players) ==
  IF roster = <<>> THEN players
  ELSE LET lineupPosition == mapYahooLineupPosition(Head(roster).selected_position)
       IN  YahooStarters(Tail(roster),
             IF lineupPosition # NoSlot /\ lineupPosition # "BN"
               THEN Put(players, lineupPosition, Obj(YahooPlayer(Head(roster))))
               ELSE players)

IsYahooBench(playerData) == playerData.selected_position = "BN"

YahooRosterGet == "GET yahoo roster"

\* YahooApiService.getTeamLineup(leagueId, teamId, week, season)
yahooGetTeamLineup(teamId, week, season, resp, t) ==
  LET roster == resp.roster
      starters == YahooStarters(roster, <<>>)
      benchPlayers == MapSeq(SelectSeq(roster, IsYahooBench), YahooPlayer)
      players == IF Len(benchPlayers) > 0 THEN Put(starters, "BENCH", Arr(benchPlayers))
                                          ELSE starters
  IN  IF resp = Fail
        THEN LineupFailed(teamId, <<"Network Error">>, <<YahooRosterGet>>)
        ELSE [outcome |-> "return",
              value |-> Lineup("yahoo-", teamId, week, season, players, t),
              net |-> <<YahooRosterGet>>]

mapSleeperPosition(position) ==
  IF position \in {"QB", "RB", "WR", "TE", "K", "DEF"} THEN position ELSE position

\* an injury map that hands an unlisted status through
mapSleeperInjuryStatusPassThrough(status) ==
  CASE status = "" -> "healthy"
    [] status = "Questionable" -> "questionable"
    [] status = "Doubtful" -> "doubtful"
    [] status = "Out" -> "out"
    [] OTHER -> status

mapSleeperInjuryStatus(status) ==
  CASE status = "" -> "healthy"
    [] status = "Questionable" -> "questionable"
    [] status = "Doubtful" -> "doubtful"
    [] status = "Out" -> "out"
    [] OTHER -> "healthy"

lineupPositions == <<"QB", "RB1", "RB2", "WR1", "WR2", "TE", "FLEX", "K", "DEF">>

\* /players/nfl: the players Sleeper knows, by id
allPlayers ==
  ("p1" :> [position |-> "QB", team |-> "BUF", injury_status |-> ""])
  @@ ("p2" :> [position |-> "LB", team |-> "KC", injury_status |-> "Out"])

SleeperPlayer(playerId, projected) ==
  [id |-> <<playerId>>,
   position |-> mapSleeperPosition(allPlayers[playerId].position),
   team |-> allPlayers[playerId].team,
   injuryStatus |-> mapSleeperInjuryStatus(allPlayers[playerId].injury_status),
   projectedPoints |-> projected]

StarterPresent(playerId) == playerId # "" /\ playerId # "0"

\* lineupPositions.forEach((position, index) => ...)
RECURSIVE SleeperStarters(_, _, _)
SleeperStarters(starters, index, players) ==
  IF index > Len(lineupPositions) THEN players
  ELSE SleeperStarters(starters, index + 1,
         IF index <= Len(starters) /\ StarterPresent(starters[index])
            /\ starters[index] \in DOMAIN allPlayers
           THEN Put(players, lineupPositions[index], Obj(SleeperPlayer(starters[index], 0)))
           ELSE players)

SleeperBenchPlayer(playerId) == SleeperPlayer(playerId, 0)
SleeperBenchKept(playerId) == StarterPresent(playerId) /\ playerId \in DOMAIN allPlayers

\* starters.slice(9)
Slice9(starters) == SubSeq(starters, 10, Len(starters))

SleeperLineupGets ==
  <<"GET sleeper rosters", "GET sleeper league", "GET sleeper matchups", "GET sleeper players">>

\* SleeperApiService.getTeamLineup(leagueId, teamId, week)
sleeperGetTeamLineup(teamId, week, resp, t) ==
  LET roster == FindBy(resp.rosters, "roster_id", teamId)
      matchup == FindBy(resp.matchups, "roster_id", teamId)
      starters == SleeperStarters(matchup.starters, 1, <<>>)
      benchPlayers == MapSeq(SelectSeq(Slice9(matchup.starters), SleeperBenchKept),
                             SleeperBenchPlayer)
      players == IF matchup = Missing THEN <<>>
                 ELSE IF Len(benchPlayers) > 0 THEN Put(starters, "BENCH", Arr(benchPlayers))
                 ELSE starters
  IN  IF resp = Fail
        THEN LineupFailed(Template(teamId), <<"Network Error">>, SubSeq(SleeperLineupGets, 1, 2))
      ELSE IF roster = Missing
        THEN LineupFailed(Template(teamId),
                          <<"Team ">> \o Template(teamId) \o <<" not found in league">>,
                          SubSeq(SleeperLineupGets, 1, 2))
      ELSE [outcome |-> "return",
            value |-> Lineup("sleeper-", Template(teamId), week, ParseInt(resp.season), players, t),
            net |-> SleeperLineupGets]

(***************************************************************************)
(* Unified dispatcher                                                      *)
(***************************************************************************)
Platforms == {"espn", "ESPN", "Yahoo", "sleeper", "CBS"}

toLowerCase(p) ==
  CASE p = "ESPN" -> "espn"
    [] p = "Yahoo" -> "yahoo"
    [] p = "CBS" -> "cbs"
    [] OTHER -> p

IsErrorInstance(e) == "error" \in DOMAIN e

DestructureError == Err(<<"Cannot destructure property of null">>)

FantasyTeam(id, name, platform, leagueId, leagueName, record, season, t) ==
  [id |-> id, name |-> name, platform |-> platform, leagueId |-> leagueId,
   leagueName |-> leagueName, ownerId |-> "user-1", record |-> record,
   season |-> season, isActive |-> TRUE, lastSyncDate |-> t]

Connected(platform, team) == [success |-> TRUE, platform |-> platform, teams |-> <<team>>]

\* The state a dispatcher call reads and may change
AdapterState(sess, store, token) ==
  [session |-> sess, store |-> store, removes |-> 0, token |-> token]

\* What connectESPN makes of the answer r of getTeamFromUrl
espnConnection(r, token, t) ==
  [outcome |-> IF r.outcome = "throw" THEN "throw" ELSE "return",
   value |-> IF r.outcome = "throw"
               THEN Err(<<"ESPN connection failed: ">> \o Str(r.value.error))
               ELSE Connected("ESPN",
                      FantasyTeam(<<"espn-">> \o r.value.id, r.value.name, "ESPN",
                                  r.value.leagueId,
                                  <<"ESPN League ">> \o r.value.leagueId,
                                  r.value.record, r.value.season, t)),
   net |-> r.net,
   session |-> r.session, store |-> r.store, removes |-> r.removes, token |-> token]

\* connectESPN that reports a scrape whose two proxies both failed
connectESPNStrict(credentials, st, t, env) ==
  IF credentials = NullCredentials
    THEN [outcome |-> "throw", value |-> DestructureError, net |-> <<>>] @@ st
  ELSE IF ~(credentials.teamUrl # Missing)
    THEN [outcome |-> "throw", value |-> Err(<<"ESPN requires team URL">>), net |-> <<>>] @@ st
  ELSE IF env.respA = Fail /\ env.respB = Fail
    THEN [outcome |-> "throw",
          value |-> Err(<<"ESPN connection failed: ">> \o Str(<<"Network Error">>)),
          net |-> <<ProxyA, ProxyB>>] @@ st
  ELSE espnConnection(getTeamFromUrl(st.session, st.store, t, credentials.teamUrl,
                                     env.respA, env.respB),
                      st.token, t)

\* connectESPN(credentials): team URL, scraped through getTeamFromUrl
connectESPN(credentials, st, t, env) ==
  IF credentials = NullCredentials
    THEN [outcome |-> "throw", value |-> DestructureError, net |-> <<>>] @@ st
  ELSE IF ~(credentials.teamUrl # Missing)
    THEN [outcome |-> "throw", value |-> Err(<<"ESPN requires team URL">>), net |-> <<>>] @@ st
  ELSE espnConnection(getTeamFromUrl(st.session, st.store, t, credentials.teamUrl,
                                     env.respA, env.respB),
                      st.token, t)

\* Upstream answers of Yahoo's getUserLeagues
YahooLeague(teamIds) ==
  [league_id |-> S("L1"), name |-> "Yahoo League", season |-> 2025,
   teams |-> [i \in 1..Len(teamIds) |->
                [team_id |-> teamIds[i], name |-> "Yahoo Team",
                 record |-> [wins |-> 1, losses |-> 0, ties |-> 0]]]]

YahooLeagues(ls) == [leagues |-> ls]

YahooGet == "GET yahoo leagues"

\* What connectYahoo makes of the leagues getUserLeagues answered
yahooFailure(msg, after) ==
  [outcome |-> "throw",
   value |-> Err(<<"Yahoo connection failed: ">> \o Str(msg)),
   net |-> <<YahooGet>>] @@ after

yahooTeam(league, team, credentials, after, t) ==
  IF team = Missing
    THEN yahooFailure(<<"Team ">> \o Template(credentials.teamId) \o <<" not found in league ">>
                      \o Template(credentials.leagueId), after)
    ELSE [outcome |-> "return",
          value |-> Connected("Yahoo",
                      FantasyTeam(<<"yahoo-">> \o Template(credentials.teamId), team.name, "Yahoo",
                                  credentials.leagueId, league.name, team.record,
                                  league.season, t)),
          net |-> <<YahooGet>>] @@ after

yahooLeague(league, credentials, after, t) ==
  IF league = Missing
    THEN yahooFailure(<<"League ">> \o Template(credentials.leagueId) \o <<" not found">>, after)
    ELSE yahooTeam(league, FindBy(league.teams, "team_id", credentials.teamId),
                   credentials, after, t)

\* connectYahoo without the access-token test
connectYahooUnvalidated(credentials, st, t, env) ==
  IF credentials = NullCredentials
    THEN [outcome |-> "throw", value |-> DestructureError, net |-> <<>>] @@ st
  ELSE IF env.yahoo = Fail
    THEN yahooFailure(<<"Failed to fetch Yahoo leagues">>,
                      [st EXCEPT !.token = credentials.accessToken])
  ELSE yahooLeague(FindBy(env.yahoo.leagues, "league_id", credentials.leagueId),
                   credentials, [st EXCEPT !.token = credentials.accessToken], t)

\* connectYahoo(credentials)
connectYahoo(credentials, st, t, env) ==
  IF credentials = NullCredentials
    THEN [outcome |-> "throw", value |-> DestructureError, net |-> <<>>] @@ st
  ELSE IF ~Truthy(credentials.accessToken)
    THEN [outcome |-> "throw", value |-> Err(<<"Yahoo requires access token">>), net |-> <<>>] @@ st
  ELSE IF env.yahoo = Fail
    THEN yahooFailure(<<"Failed to fetch Yahoo leagues">>,
                      [st EXCEPT !.token = credentials.accessToken])
  ELSE yahooLeague(FindBy(env.yahoo.leagues, "league_id", credentials.leagueId),
                   credentials, [st EXCEPT !.token = credentials.accessToken], t)

\* Upstream answers of Sleeper's league endpoints: roster_id is a JSON
\* number upstream; team_id of a SleeperTeam is that value, unconverted.

SleeperDoc(rosterIds) ==
  [name |-> "Sleeper League", season |-> <<"2025">>,
   rosters |-> [i \in 1..Len(rosterIds) |->
                  [roster_id |-> rosterIds[i],
                   settings |-> [wins |-> 2, losses |-> 1, ties |-> 0]]]]

SleeperGets == <<"GET sleeper league", "GET sleeper rosters", "GET sleeper users">>
SleeperPlayersGet == "GET sleeper players"

\* SleeperApiService.getLeague(leagueId)
sleeperGetLeague(leagueId, resp) ==
  IF resp = Fail
    THEN [outcome |-> "throw",
          value |-> Err(<<"Failed to fetch league ">> \o Template(leagueId) \o <<": ">>
                        \o Str(<<"Network Error">>)),
          net |-> SleeperGets]
    ELSE [outcome |-> "return",
          value |-> [league_id |-> leagueId, name |-> resp.name, season |-> resp.season,
                     teams |-> [i \in 1..Len(resp.rosters) |->
                                  [team_id |-> resp.rosters[i].roster_id,
                                   name |-> "Sleeper Team",
                                   record |-> resp.rosters[i].settings]]],
          net |-> Append(SleeperGets, SleeperPlayersGet)]

\* What connectSleeper makes of the answer r of getLeague
sleeperFailure(msg, net, st) ==
  [outcome |-> "throw",
   value |-> Err(<<"Sleeper connection failed: ">> \o Str(msg)),
   net |-> net] @@ st

sleeperTeam(r, team, credentials, st, t) ==
  IF team = Missing
    THEN sleeperFailure(<<"Team ">> \o Template(credentials.teamId) \o <<" not found in league ">>
                        \o Template(credentials.leagueId), r.net, st)
    ELSE [outcome |-> "return",
          value |-> Connected("Sleeper",
                      FantasyTeam(<<"sleeper-">> \o Template(credentials.teamId), team.name,
                                  "Sleeper", credentials.leagueId, r.value.name,
                                  team.record, ParseInt(r.value.season), t)),
          net |-> r.net] @@ st

sleeperConnection(r, credentials, st, t) ==
  IF r.outcome = "throw"
    THEN sleeperFailure(r.value.error, r.net, st)
    ELSE sleeperTeam(r, FindBy(r.value.teams, "team_id", credentials.teamId), credentials, st, t)

\* connectSleeper(credentials)
connectSleeper(credentials, st, t, env) ==
  IF credentials = NullCredentials
    THEN [outcome |-> "throw", value |-> DestructureError, net |-> <<>>] @@ st
  ELSE IF ~Truthy(credentials.leagueId) \/ ~Truthy(credentials.teamId)
    THEN [outcome |-> "throw",
          value |-> Err(<<"Sleeper requires league ID and team ID">>), net |-> <<>>] @@ st
  ELSE sleeperConnection(sleeperGetLeague(credentials.leagueId, env.sleeper), credentials, st, t)

\* The switch of connectPlatform
Dispatch(platform, credentials, st, t, env) ==
  CASE toLowerCase(platform) = "espn" -> connectESPN(credentials, st, t, env)
    [] toLowerCase(platform) = "yahoo" -> connectYahoo(credentials, st, t, env)
    [] toLowerCase(platform) = "sleeper" -> connectSleeper(credentials, st, t, env)
    [] OTHER -> [outcome |-> "throw",
                 value |-> Err(<<"Unsupported platform: ", platform>>),
                 net |-> <<>>] @@ st

\* The catch block of connectPlatform, applied to what the switch gave
Caught(r, platform) ==
  IF r.outcome = "throw"
    THEN [r EXCEPT !.outcome = "return",
                   !.value = [success |-> FALSE, platform |-> platform, teams |-> <<>>,
                              error |-> IF IsErrorInstance(r.value)
                                          THEN r.value.error
                                          ELSE <<"Unknown error">>]]
    ELSE r

\* connectPlatform without its try/catch
connectPlatformUncaught(platform, credentials, st, t, env) ==
  Dispatch(platform, credentials, st, t, env)

\* connectPlatform(platform, credentials): the switch inside try/catch
connectPlatform(platform, credentials, st, t, env) ==
  Caught(Dispatch(platform, credentials, st, t, env), platform)

(***************************************************************************)
(* Actions of the session machine                                          *)
(***************************************************************************)
Init ==
  /\ now = 0
  /\ authSession = NoSession
  /\ storage = NoRecord
  /\ authCalls = [u \in Usernames |-> Idle]
  /\ yahooToken = Missing
  /\ appStore = InitialStore
  /\ syncCalls = NoSyncs
  /\ input = NoInput
  /\ last = Done("constructor", "return", <<>>, <<>>, 0)

\* The clock advances
Tick ==
  /\ now < MaxTime
  /\ now' = now + 1
  /\ last' = Done("tick", "return", <<>>, <<>>, 0)
  /\ input' = NoInput
  /\ UNCHANGED <<appStore, syncCalls, authSession, storage, authCalls, yahooToken>>

\* The page is reloaded: a new ESPNApiService is constructed over the same
\* localStorage and the store is created anew; calls in flight die with
\* the old page.
Construct ==
  LET r == loadSavedSession(storage, now)
  IN  /\ authSession' = r.session
      /\ storage' = r.store
      /\ authCalls' = [u \in Usernames |-> Idle]
      /\ yahooToken' = Missing
      /\ last' = Done("constructor", "return", <<>>, <<>>, r.removes)
      /\ input' = NoInput
      /\ appStore' = InitialStore
      /\ syncCalls' = NoSyncs
      /\ UNCHANGED now

\* authenticate(username, password): the GET of the login page is issued
AuthenticateCall(u) ==
  /\ authCalls[u] = Idle
  /\ authCalls' = [authCalls EXCEPT ![u] =
                     [stage |-> "login", net |-> <<"GET login">>, overlapped |-> FALSE]]
  /\ last' = Done("authenticate-call", "pending", <<u>>, <<"GET login">>, 0)
  /\ input' = [username |-> u]
  /\ UNCHANGED <<appStore, syncCalls, now, authSession, storage, yahooToken>>

\* a login-page step that submits the credentials whatever the GET answered
AuthLoginPageSubmitsAnyway(u, ok) ==
  /\ authCalls[u] # Idle
  /\ authCalls[u].stage = "login"
  /\ authCalls' = [authCalls EXCEPT ![u] =
                     [stage |-> "submit", net |-> authCalls[u].net \o <<"POST login">>,
                      overlapped |-> authCalls[u].overlapped]]
  /\ last' = Done("authenticate-page", "pending", <<u>>, authCalls'[u].net, 0)
  /\ input' = [username |-> u, answer |-> IF ok THEN [page |-> TRUE] ELSE Fail]
  /\ UNCHANGED <<appStore, syncCalls, now, authSession, storage, yahooToken>>

\* the login page arrives (or the GET fails): token extracted, POST issued
AuthLoginPage(u, ok) ==
  /\ authCalls[u] # Idle
  /\ authCalls[u].stage = "login"
  /\ IF ok
       THEN /\ authCalls' = [authCalls EXCEPT ![u] =
                               [stage |-> "submit", net |-> authCalls[u].net \o <<"POST login">>,
                                overlapped |-> authCalls[u].overlapped]]
            /\ last' = Done("authenticate-page", "pending", <<u>>, authCalls'[u].net, 0)
       ELSE /\ authCalls' = [authCalls EXCEPT ![u] = Idle]
            /\ last' = Done("authenticate", "throw",
                            Err(AuthFailedMsg(<<"Network Error">>)), authCalls[u].net, 0)
  /\ input' = [username |-> u, answer |-> IF ok THEN [page |-> TRUE] ELSE Fail]
  /\ UNCHANGED <<appStore, syncCalls, now, authSession, storage, yahooToken>>

\* the POST answers with a status below 400, or fails (status >= 400,
\* transport error): the session is written on 200/302 only
authenticateFinish(u, answer, sess, store, t) ==
  IF answer # Fail /\ answer.status < 400 /\ LoginSucceeded(answer.status)
    THEN LET s == NewSession(u, answer.headers, t)
         IN  [outcome |-> "return", value |-> s, session |-> s, store |-> saveSession(s, store)]
    ELSE [outcome |-> "throw",
          value |-> Err(AuthFailedMsg(IF answer = Fail \/ answer.status >= 400
                                        THEN <<"Request failed">>
                                        ELSE <<"Login failed - invalid credentials or ESPN error">>)),
          session |-> sess, store |-> store]

\* The calls still in flight when another call wrote its session: each
\* remembers that a concurrent call succeeded during its own run
Overlap(calls, u, outcome) ==
  [v \in Usernames |->
     IF v = u THEN Idle
     ELSE IF calls[v] # Idle /\ outcome = "return"
            THEN [calls[v] EXCEPT !.overlapped = TRUE]
            ELSE calls[v]]

AuthSubmit(u, answer) ==
  /\ authCalls[u] # Idle
  /\ authCalls[u].stage = "submit"
  /\ LET r == authenticateFinish(u, answer, authSession, storage, now)
     IN  /\ authSession' = r.session
         /\ storage' = r.store
         /\ last' = Done("authenticate", r.outcome, r.value, authCalls[u].net, 0)
         /\ authCalls' = Overlap(authCalls, u, r.outcome)
  /\ input' = [username |-> u, answer |-> answer, overlapped |-> authCalls[u].overlapped]
  /\ UNCHANGED <<appStore, syncCalls, now, yahooToken>>

IsAuthenticated ==
  LET r == isAuthenticated(authSession, storage, now)
  IN  /\ authSession' = r.session
      /\ storage' = r.store
      /\ last' = Done("isAuthenticated", "return", r.ret, <<>>, r.removes)
      /\ input' = NoInput
      /\ UNCHANGED <<appStore, syncCalls, now, authCalls, yahooToken>>

LoginAnswers == {Fail} \cup [status : LoginStatuses, headers : SetCookieHeaders]

\* Pages offered to the gated fetch operations: a login page, a team page
\* with a team name, and a page in which no parsing strategy finds anything
Page(doctype, login, initState, teamName) ==
  [doctype |-> doctype, login |-> login, signin |-> FALSE, initState |-> initState,
   appData |-> "none", teamName |-> teamName, record |-> <<>>, probe |-> {}, rows |-> <<>>]

PageBodies ==
  { Page(TRUE, TRUE, "none", <<>>),
    Page(TRUE, FALSE, "none", <<"My Team">>),
    Page(FALSE, FALSE, "none", <<>>) }
Responses == {Fail, NonString} \cup PageBodies

\* The answers of the two proxies: B is asked only after A failed
ProxyAnswers(R) == {e \in [respA : R, respB : R] : e.respA # Fail => e.respB = Fail}

GetTeamFromUrl(url, e) ==
  LET r == getTeamFromUrl(authSession, storage, now, url, e.respA, e.respB)
  IN  /\ authSession' = r.session
      /\ storage' = r.store
      /\ last' = Done("getTeamFromUrl", r.outcome, r.value, r.net, r.removes)
      /\ input' = [url |-> url, respA |-> e.respA, respB |-> e.respB]
      /\ UNCHANGED <<appStore, syncCalls, now, authCalls, yahooToken>>

RefreshTeamData(url, e) ==
  LET r == refreshTeamData(authSession, storage, now, url, e.respA, e.respB)
  IN  /\ authSession' = r.session
      /\ storage' = r.store
      /\ last' = Done("refreshTeamData", r.outcome, r.value, r.net, r.removes)
      /\ input' = [url |-> url, respA |-> e.respA, respB |-> e.respB]
      /\ UNCHANGED <<appStore, syncCalls, now, authCalls, yahooToken>>

EspnApiAnswers == {Fail, EspnLeagueDoc(<<EspnEntry(11, 1, 0, 221)>>)}

GetLeague(resp) ==
  LET r == getLeague(<<"45107891">>, resp)
  IN  /\ last' = Done("getLeague", r.outcome, r.value, r.net, 0)
      /\ input' = [resp |-> resp]
      /\ UNCHANGED <<appStore, syncCalls, now, authSession, storage, authCalls, yahooToken>>

GetLeagueWithProxy(resp) ==
  LET r == getLeagueWithProxy(<<"45107891">>, resp)
  IN  /\ last' = Done("getLeagueWithProxy", r.outcome, r.value, r.net, 0)
      /\ input' = [resp |-> resp]
      /\ UNCHANGED <<appStore, syncCalls, now, authSession, storage, authCalls, yahooToken>>

GetTeamLineup(resp) ==
  LET r == espnGetTeamLineup(<<"7">>, 8, 2025, resp, now)
  IN  /\ last' = Done("getTeamLineup", r.outcome, r.value, r.net, 0)
      /\ input' = [resp |-> resp]
      /\ UNCHANGED <<appStore, syncCalls, now, authSession, storage, authCalls, yahooToken>>

FetchUrls == {u \in TeamUrls : u.season = <<>>}

Credentials(urls, tokens, leagues, teams) ==
  [teamUrl : urls, accessToken : tokens, leagueId : leagues, teamId : teams]

EspnCredentials ==
  {NullCredentials} \cup Credentials({Missing} \cup FetchUrls, {Missing}, {Missing}, {Missing})

YahooCredentials ==
  {NullCredentials}
  \cup Credentials({Missing}, {Missing, S("tokA"), S("tokB")}, {Missing, S("L1")}, {Missing, S("1")})

SleeperCredentials ==
  {NullCredentials} \cup Credentials({Missing}, {Missing}, {Missing, S("L1")}, {Missing, S("1")})

YahooAnswers == {Fail, YahooLeagues(<<>>), YahooLeagues(<<YahooLeague(<<S("1")>>)>>)}
SleeperAnswers == {Fail, SleeperDoc(<<N(1)>>), SleeperDoc(<<S("1")>>)}

\* What the network answers to one connectPlatform call
Env(proxies, yahoo, sleeper) ==
  [respA |-> proxies.respA, respB |-> proxies.respB, yahoo |-> yahoo, sleeper |-> sleeper]

NoProxy == [respA |-> Fail, respB |-> Fail]

\* The dispatcher call returns (or throws) r
ConnectEnds(r, platform, credentials, e) ==
  /\ authSession' = r.session
  /\ storage' = r.store
  /\ yahooToken' = r.token
  /\ last' = Done("connectPlatform", r.outcome, r.value, r.net, r.removes)
  /\ input' = [platform |-> platform, credentials |-> credentials, env |-> e]
  /\ UNCHANGED <<appStore, syncCalls, now, authCalls>>

ConnectPlatform(platform, credentials, e) ==
  ConnectEnds(connectPlatform(platform, credentials,
                              AdapterState(authSession, storage, yahooToken), now, e),
              platform, credentials, e)

\* The platform tags of the connections and of the teams in the store
StoreConnections == <<"ESPN", "Yahoo">>
StoreTeams == <<"ESPN", "ESPN", "Yahoo">>

\* list.filter(x => x.platform !== platform)
RECURSIVE filterOut(_, _)
filterOut(list, platform) ==
  IF list = <<>> THEN <<>>
  ELSE IF Head(list) = platform THEN filterOut(Tail(list), platform)
  ELSE <<Head(list)>> \o filterOut(Tail(list), platform)

\* Settings.handleDisconnectPlatform(platform): after window.confirm the
\* platform's connections and teams are filtered out of the store
handleDisconnectPlatform(platform, confirmed, connections, teams) ==
  IF confirmed
    THEN [connections |-> filterOut(connections, platform), teams |-> filterOut(teams, platform)]
    ELSE [connections |-> connections, teams |-> teams]

DisconnectPlatform(platform, confirmed) ==
  /\ last' = Done("disconnectPlatform", "return",
                  handleDisconnectPlatform(platform, confirmed, StoreConnections, StoreTeams),
                  <<>>, 0)
  /\ input' = [platform |-> platform, confirmed |-> confirmed]
  /\ UNCHANGED <<appStore, syncCalls, now, authSession, storage, authCalls, yahooToken>>

Next ==
  \/ Tick
  \/ Construct
  \/ \E u \in Usernames : AuthenticateCall(u)
  \/ \E u \in Usernames, ok \in BOOLEAN : AuthLoginPage(u, ok)
  \/ \E u \in Usernames, a \in LoginAnswers : AuthSubmit(u, a)
  \/ IsAuthenticated
  \/ \E platform \in {"ESPN", "Yahoo"}, confirmed \in BOOLEAN : DisconnectPlatform(platform, confirmed)

Spec == Init /\ [][Next]_vars

(***************************************************************************)
(* getTeamLineup of each adapter, applied to upstream rosters              *)
(***************************************************************************)
Projections == {Undefined, 30, 55}

\* the entries get their player ids from their place in the roster
Numbered(entries, field) == [i \in 1..Len(entries) |-> entries[i] @@ (field :> i)]

SeqsUpTo(Elems, n) == UNION {[1..k -> Elems] : k \in 0..n}

EspnEntries ==
  [defaultPositionId : {1, 99}, lineupSlotId : {0, 1, 20, 21}, projected : Projections,
   injuryStatus : {"ACTIVE"}, proTeamId : {2}]

YahooEntries ==
  [display_position : {"RB", "P"}, selected_position : {"QB", "RB", "BN", "IR"},
   projected : Projections, injury_status : {""}, editorial_team_abbr : {"Buf"}]

YahooRoster(entries) == [roster |-> entries]

SleeperLineupDoc(rosterId, matchups) ==
  [season |-> <<"2025">>, rosters |-> << [roster_id |-> rosterId] >>, matchups |-> matchups]

Matchup(rosterId, starters) == << [roster_id |-> rosterId, starters |-> starters] >>

StarterIds == {"0", "p1", "p9"}

LineupInputs ==
  [adapter : {"ESPN"}, teamId : {<<"7">>}, resp : {Fail}]
  \cup [adapter : {"ESPN"}, teamId : {<<"9">>}, resp : {EspnLeagueDoc(<<>>)}]
  \cup [adapter : {"ESPN"}, teamId : {<<"7">>},
        resp : {EspnLeagueDoc(Numbered(r, "playerId")) : r \in SeqsUpTo(EspnEntries, MaxRoster)}]
  \cup [adapter : {"Yahoo"}, teamId : {<<"1">>}, resp : {Fail}]
  \cup [adapter : {"Yahoo"}, teamId : {<<"1">>},
        resp : {YahooRoster(Numbered(r, "player_id")) : r \in SeqsUpTo(YahooEntries, MaxRoster)}]
  \cup [adapter : {"Sleeper"}, teamId : {N(1)}, resp : {Fail}]
  \cup [adapter : {"Sleeper"}, teamId : {S("1")},
        resp : {SleeperLineupDoc(N(1), <<>>), SleeperLineupDoc(S("1"), Matchup(S("1"), <<"p1">>))}]
  \cup [adapter : {"Sleeper"}, teamId : {N(1)},
        resp : {SleeperLineupDoc(N(1), <<>>)}
               \cup {SleeperLineupDoc(N(1), Matchup(N(1), st)) :
                       st \in SeqsUpTo(StarterIds, MaxStarters)}]

LineupWeek == 8

InitLineup ==
  /\ now = 0
  /\ authSession = NoSession
  /\ storage = NoRecord
  /\ authCalls = [u \in Usernames |-> Idle]
  /\ yahooToken = Missing
  /\ appStore = InitialStore
  /\ syncCalls = NoSyncs
  /\ input \in LineupInputs
  /\ last = Done("constructor", "return", <<>>, <<>>, 0)

EspnGetTeamLineup ==
  /\ input.adapter = "ESPN"
  /\ LET r == espnGetTeamLineup(input.teamId, LineupWeek, 2025, input.resp, now)
     IN  last' = Done("getTeamLineup", r.outcome, r.value, r.net, 0)
  /\ UNCHANGED <<appStore, syncCalls, now, authSession, storage, authCalls, yahooToken, input>>

YahooGetTeamLineup ==
  /\ input.adapter = "Yahoo"
  /\ LET r == yahooGetTeamLineup(input.teamId, LineupWeek, 2025, input.resp, now)
     IN  last' = Done("getTeamLineup", r.outcome, r.value, r.net, 0)
  /\ UNCHANGED <<appStore, syncCalls, now, authSession, storage, authCalls, yahooToken, input>>

SleeperGetTeamLineup ==
  /\ input.adapter = "Sleeper"
  /\ LET r == sleeperGetTeamLineup(input.teamId, LineupWeek, input.resp, now)
     IN  last' = Done("getTeamLineup", r.outcome, r.value, r.net, 0)
  /\ UNCHANGED <<appStore, syncCalls, now, authSession, storage, authCalls, yahooToken, input>>

NextLineup == EspnGetTeamLineup \/ YahooGetTeamLineup \/ SleeperGetTeamLineup

SpecLineup == InitLineup /\ [][NextLineup]_vars

(***************************************************************************)
(* The fetch operations and the dispatcher, run by a page that was loaded  *)
(* with or without a persisted session                                     *)
(***************************************************************************)
\* A session saved the day before the page was loaded
SavedSession ==
  [isAuthenticated |-> TRUE, cookies |-> <<"SWID=1">>, expiresAt |-> SessionTTL - 1,
   username |-> "u1"]

\* A week goes by
WeekPasses ==
  /\ now + SessionTTL <= MaxTime
  /\ now' = now + SessionTTL
  /\ last' = Done("tick", "return", <<>>, <<>>, 0)
  /\ input' = NoInput
  /\ UNCHANGED <<appStore, syncCalls, authSession, storage, authCalls, yahooToken>>


\* An optional argument left out of a call
Omitted == <<>>
OrDefault(arg, default) == IF arg = Omitted THEN default ELSE arg

\* createTeamFromHTML(html, leagueId = '45107891', teamId = '7', season = '2025'):
\* the page is parsed without any session test and wrapped as a result
createTeamFromHTML(html, leagueId, teamId, season, t) ==
  [success |-> TRUE,
   platform |-> "ESPN",
   teams |-> <<parseTeamPage(html, OrDefault(leagueId, <<"45107891">>),
                             OrDefault(teamId, <<"7">>), OrDefault(season, <<"2025">>), t)>>,
   error |-> <<>>]

\* UnifiedApiService.createESPNTeamFromHTML hands its arguments through
CreateESPNTeamFromHTML(html, teamId) ==
  /\ last' = Done("createESPNTeamFromHTML", "return",
                  createTeamFromHTML(html, Omitted, teamId, Omitted, now), <<>>, 0)
  /\ input' = [html |-> html, teamId |-> teamId]
  /\ UNCHANGED <<appStore, syncCalls, now, authSession, storage, authCalls, yahooToken>>

\* team.id.replace(prefix, ''): the first occurrence of the prefix is removed
RECURSIVE replace(_, _)
replace(id, prefix) ==
  IF id = <<>> THEN <<>>
  ELSE IF Head(id) = prefix THEN Tail(id)
  ELSE <<Head(id)>> \o replace(Tail(id), prefix)

\* The answer of a PUT: the request failed (network error or a status
\* outside 2xx, which axios rejects) or resolved with a 2xx status
PutAnswers == {Fail, [status |-> 200], [status |-> 204]}

YahooPut == "PUT yahoo roster"
SleeperPut == "PUT sleeper roster"

\* EspnApiService.updateLineup: not implemented, answers false
espnUpdateLineup(answer) == [outcome |-> "return", value |-> FALSE, net |-> <<>>]

\* YahooApiService.updateLineup: PUT the roster; a failure is caught
yahooUpdateLineup(answer) ==
  [outcome |-> "return",
   value |-> IF answer = Fail THEN FALSE ELSE answer.status = 200,
   net |-> <<YahooPut>>]

\* SleeperApiService.updateLineup: PUT the starters; a failure is caught
sleeperUpdateLineup(answer) ==
  [outcome |-> "return",
   value |-> IF answer = Fail THEN FALSE ELSE answer.status = 200,
   net |-> <<SleeperPut>>]

\* UnifiedApiService.updateTeamLineup(team, week, lineup): a switch on
\* team.platform whose default branch throws
updateTeamLineup(platform, answer) ==
  CASE platform = "ESPN" -> espnUpdateLineup(answer)
    [] platform = "Yahoo" -> yahooUpdateLineup(answer)
    [] platform = "Sleeper" -> sleeperUpdateLineup(answer)
    [] OTHER -> [outcome |-> "throw",
                 value |-> Err(<<"Unsupported platform: ", platform>>),
                 net |-> <<>>]

\* The platform tags a FantasyTeam can carry
TeamPlatforms == {"ESPN", "Yahoo", "Sleeper", "CBS"}

UpdateEnds(r, platform, answer) ==
  /\ last' = Done("updateTeamLineup", r.outcome, r.value, r.net, 0)
  /\ input' = [platform |-> platform, answer |-> answer]
  /\ UNCHANGED <<appStore, syncCalls, now, authSession, storage, authCalls, yahooToken>>

UpdateTeamLineup(platform, answer) ==
  UpdateEnds(updateTeamLineup(platform, answer), platform, answer)

InitFetch ==
  /\ now = 0
  /\ storage \in {NoRecord, Stringify(SavedSession)}
  /\ authSession = loadSavedSession(storage, now).session
  /\ authCalls = [u \in Usernames |-> Idle]
  /\ yahooToken = Missing
  /\ appStore = InitialStore
  /\ syncCalls = NoSyncs
  /\ input = NoInput
  /\ last = Done("constructor", "return", <<>>, <<>>, 0)

NextFetch ==
  \/ WeekPasses
  \/ IsAuthenticated
  \/ \E url \in FetchUrls, e \in ProxyAnswers(Responses) : GetTeamFromUrl(url, e)
  \/ \E url \in FetchUrls, e \in ProxyAnswers(Responses) : RefreshTeamData(url, e)
  \/ \E resp \in EspnApiAnswers : GetLeague(resp)
  \/ \E resp \in EspnApiAnswers \cup {HtmlContents} : GetLeagueWithProxy(resp)
  \/ \E resp \in EspnApiAnswers : GetTeamLineup(resp)
  \/ \E p \in {"espn", "ESPN"}, c \in EspnCredentials, e \in ProxyAnswers(Responses) :
        ConnectPlatform(p, c, Env(e, Fail, Fail))
  \/ \E c \in YahooCredentials, y \in YahooAnswers : ConnectPlatform("Yahoo", c, Env(NoProxy, y, Fail))
  \/ \E c \in SleeperCredentials, y \in SleeperAnswers :
        ConnectPlatform("sleeper", c, Env(NoProxy, Fail, y))
  \/ \E c \in SleeperCredentials : ConnectPlatform("CBS", c, Env(NoProxy, Fail, Fail))
  \/ \E html \in PageBodies, teamId \in {Omitted, <<"3">>} : CreateESPNTeamFromHTML(html, teamId)
  \/ \E platform \in TeamPlatforms, answer \in PutAnswers : UpdateTeamLineup(platform, answer)

SpecFetch == InitFetch /\ [][NextFetch]_vars

(***************************************************************************)
(* getTeamFromUrl with an authenticated session, applied to every page     *)
(***************************************************************************)
AllResponses == {NonString} \cup Bodies

ScrapeUrls == {u \in TeamUrls : u.teamId # <<>>}

ScrapeInputs ==
  [url : ScrapeUrls, respA : AllResponses, respB : {Fail}]
  \cup [url : ScrapeUrls, respA : {Fail}, respB : {Fail} \cup AllResponses]
  \cup [url : TeamUrls \ ScrapeUrls, respA : {Fail}, respB : {Fail}]

InitScrape ==
  /\ now = 0
  /\ storage = Stringify(SavedSession)
  /\ authSession = loadSavedSession(storage, now).session
  /\ authCalls = [u \in Usernames |-> Idle]
  /\ yahooToken = Missing
  /\ appStore = InitialStore
  /\ syncCalls = NoSyncs
  /\ input \in ScrapeInputs
  /\ last = Done("constructor", "return", <<>>, <<>>, 0)

ScrapeTeam == GetTeamFromUrl(input.url, input)

NextScrape == ScrapeTeam

SpecScrape == InitScrape /\ [][NextScrape]_vars

(***************************************************************************)
(* The store: syncTeam over the dispatcher's getTeamLineup                 *)
(***************************************************************************)
\* UnifiedApiService.getTeamLineup(team, week): the adapter of the team's
\* platform is called with the team id stripped of its prefix
getTeamLineup(team, week, answer, t) ==
  CASE team.platform = "ESPN" ->
         espnGetTeamLineup(replace(team.id, "espn-"), week, team.season, answer, t)
    [] team.platform = "Yahoo" ->
         yahooGetTeamLineup(replace(team.id, "yahoo-"), week, team.season, answer, t)
    [] team.platform = "Sleeper" ->
         sleeperGetTeamLineup(S(Head(replace(team.id, "sleeper-"))), week, answer, t)
    [] OTHER -> [outcome |-> "throw",
                 value |-> Err(<<"Unsupported platform: ", team.platform>>),
                 net |-> <<>>]

\* teams.find(t => t.id === teamId)
RECURSIVE FindTeam(_, _)
FindTeam(teams, teamId) ==
  IF teams = <<>> THEN Missing
  ELSE IF Head(teams).id = teamId THEN Head(teams)
  ELSE FindTeam(Tail(teams), teamId)

SyncFailedMsg == <<"Failed to sync team">>

\* syncTeam up to its await: set({isLoading: true, error: null}), then the
\* team is looked up; a team that is not found ends the call at once
\* through catch and finally
syncTeamStarts(st, teamId) ==
  IF FindTeam(st.teams, teamId) = Missing
    THEN [st EXCEPT !.isLoading = FALSE, !.error = SyncFailedMsg]
    ELSE [st EXCEPT !.isLoading = TRUE, !.error = NoError]

\* state.lineups.filter(l => l.id !== id)
RECURSIVE WithoutLineup(_, _)
WithoutLineup(lineups, id) ==
  IF lineups = <<>> THEN <<>>
  ELSE IF Head(lineups).id = id THEN WithoutLineup(Tail(lineups), id)
  ELSE <<Head(lineups)>> \o WithoutLineup(Tail(lineups), id)

\* syncTeam whose lineup update appends without removing the earlier one
syncTeamEndsAppending(st, teamId, r, t) ==
  IF r.outcome = "throw"
    THEN [st EXCEPT !.error = SyncFailedMsg, !.isLoading = FALSE]
    ELSE [st EXCEPT
            !.teams = [i \in 1..Len(st.teams) |->
                         IF st.teams[i].id = teamId
                           THEN [st.teams[i] EXCEPT !.lastSyncDate = t]
                           ELSE st.teams[i]],
            !.lineups = st.lineups \o <<r.value>>,
            !.isLoading = FALSE]

\* syncTeam after its await, given what getTeamLineup answered: on success
\* the team's lastSyncDate and the lineups are updated; on failure the
\* error is set; in both cases isLoading ends false
syncTeamEnds(st, teamId, r, t) ==
  IF r.outcome = "throw"
    THEN [st EXCEPT !.error = SyncFailedMsg, !.isLoading = FALSE]
    ELSE [st EXCEPT
            !.teams = [i \in 1..Len(st.teams) |->
                         IF st.teams[i].id = teamId
                           THEN [st.teams[i] EXCEPT !.lastSyncDate = t]
                           ELSE st.teams[i]],
            !.lineups = WithoutLineup(st.lineups, r.value.id) \o <<r.value>>,
            !.isLoading = FALSE]

\* The teams in the store: an ESPN team and a Sleeper team, as the
\* dispatcher's connect calls name them
StoredTeam(id, platform, leagueId, season) ==
  [id |-> id, platform |-> platform, leagueId |-> leagueId, season |-> season,
   lastSyncDate |-> 0]

StoredTeams ==
  << StoredTeam(<<"espn-", "7">>, "ESPN", <<"45107891">>, 2025),
     StoredTeam(<<"sleeper-", "1">>, "Sleeper", <<"L1">>, 2025) >>

\* Team ids syncTeam is called with: the stored ones and an unknown one
SyncTeamIds == {<<"espn-", "7">>, <<"sleeper-", "1">>, <<"espn-", "99">>}

\* What the platform of a team answers (the upstream data do not change)
SyncAnswers(platform) ==
  IF platform = "ESPN"
    THEN {Fail, EspnLeagueDoc(<<EspnEntry(11, 1, 0, 221)>>)}
    ELSE {Fail,
          SleeperLineupDoc(S("1"), Matchup(S("1"), <<"p1">>)),
          SleeperLineupDoc(N(1), Matchup(N(1), <<"p1">>))}

InitSync ==
  /\ now = 0
  /\ authSession = NoSession
  /\ storage = NoRecord
  /\ authCalls = [u \in Usernames |-> Idle]
  /\ yahooToken = Missing
  /\ appStore = [InitialStore EXCEPT !.teams = StoredTeams]
  /\ syncCalls = NoSyncs
  /\ input = NoInput
  /\ last = Done("constructor", "return", <<>>, <<>>, 0)

\* syncTeam(teamId) is called and runs up to its await
SyncTeamCall(c, teamId) ==
  /\ syncCalls[c] = NoSync
  /\ appStore' = syncTeamStarts(appStore, teamId)
  /\ IF FindTeam(appStore.teams, teamId) = Missing
       THEN /\ syncCalls' = syncCalls
            /\ last' = Done("syncTeam", "return", <<"Team not found">>, <<>>, 0)
       ELSE /\ syncCalls' = [syncCalls EXCEPT ![c] = [team |-> FindTeam(appStore.teams, teamId)]]
            /\ last' = Done("syncTeam-call", "pending", <<>>, <<>>, 0)
  /\ input' = [caller |-> c, teamId |-> teamId]
  /\ UNCHANGED <<now, authSession, storage, authCalls, yahooToken>>

\* the awaited getTeamLineup has answered r: the call runs to its end
SyncEnds(r, c, answer) ==
  /\ appStore' = syncTeamEnds(appStore, syncCalls[c].team.id, r, now)
  /\ syncCalls' = [syncCalls EXCEPT ![c] = NoSync]
  /\ last' = Done("syncTeam", "return", <<r.outcome>>, r.net, 0)
  /\ input' = [caller |-> c, teamId |-> syncCalls[c].team.id, answer |-> answer]
  /\ UNCHANGED <<now, authSession, storage, authCalls, yahooToken>>

SyncTeamReturns(c, answer) ==
  /\ syncCalls[c] # NoSync
  /\ answer \in SyncAnswers(syncCalls[c].team.platform)
  /\ SyncEnds(getTeamLineup(syncCalls[c].team, LineupWeek, answer, now), c, answer)

NextSync ==
  \/ WeekPasses
  \/ \E c \in SyncCallers, teamId \in SyncTeamIds : SyncTeamCall(c, teamId)
  \/ \E c \in SyncCallers, answer \in SyncAnswers("ESPN") \cup SyncAnswers("Sleeper") :
        SyncTeamReturns(c, answer)

SpecSync == InitSync /\ [][NextSync]_vars

(***************************************************************************)
(* Properties                                                              *)
(***************************************************************************)
ReturnedLineup == last.op = "getTeamLineup" /\ last.outcome = "return"

StartingSlots(lineup) == DOMAIN lineup.players \ {"BENCH"}

RECURSIVE SumOfStarters(_, _)
SumOfStarters(lineup, slots) ==
  IF slots = {} THEN 0
  ELSE LET k == CHOOSE x \in slots : TRUE
           points == lineup.players[k].player.projectedPoints
       IN  (IF points = Undefined THEN 0 ELSE points) + SumOfStarters(lineup, slots \ {k})

\* C1: the total projected points of a Lineup returned by any adapter's
\* getTeamLineup is the sum of projectedPoints (missing counts as 0) over
\* the players in its starting slots; BENCH never contributes.
C1_TotalIsSumOfStarters ==
  ReturnedLineup =>
    last.value.totalProjectedPoints = SumOfStarters(last.value, StartingSlots(last.value))

\* a lineup with a projected starter, a starter without projection and a
\* projected bench player
C1_Witness ==
  /\ ReturnedLineup
  /\ input.adapter = "Yahoo"
  /\ "BENCH" \in DOMAIN last.value.players
  /\ \E i \in 1..Len(last.value.players["BENCH"].items) :
        last.value.players["BENCH"].items[i].projectedPoints = 30
  /\ last.value.totalProjectedPoints = 55

\* The session is Unauthenticated: none, or one past its expiry
Unauthenticated == authSession = NoSession \/ now > authSession.expiresAt

ConnectReturned == last.op = "connectPlatform"

\* What makes a connection attempt fail, read from the call's arguments,
\* the network's answers and the session before the call
AttemptFails ==
  \/ input'.platform \notin {"espn", "ESPN", "Yahoo", "sleeper"}
  \/ input'.credentials = NullCredentials
  \/ /\ input'.platform \in {"espn", "ESPN"}
     /\ (input'.credentials.teamUrl = Missing \/ Unauthenticated)
  \/ /\ input'.platform = "Yahoo"
     /\ (input'.credentials.accessToken = Missing \/ input'.env.yahoo = Fail)
  \/ /\ input'.platform = "sleeper"
     /\ \/ input'.credentials.leagueId = Missing
        \/ input'.credentials.teamId = Missing
        \/ input'.env.sleeper = Fail

\* C2: connectPlatform never throws: for every platform tag, credentials
\* map and adapter error it returns a ConnectionResult, and whenever the
\* attempt fails the result has success=false, no teams and a non-empty
\* error string.
C2_ConnectNeverThrows ==
  [][last'.op = "connectPlatform" =>
       /\ last'.outcome = "return"
       /\ last'.value.success \in BOOLEAN
       /\ (AttemptFails => last'.value.success = FALSE)
       /\ (last'.value.success = FALSE =>
             /\ last'.value.teams = <<>>
             /\ Len(last'.value.error) > 0
             /\ \A i \in 1..Len(last'.value.error) : last'.value.error[i] # "")]_vars

\* the Yahoo adapter's request failed and the caller got a failure result
C2_Witness ==
  /\ ConnectReturned
  /\ input.platform = "Yahoo"
  /\ input.credentials # NullCredentials
  /\ input.credentials.accessToken # Missing
  /\ input.env.yahoo = Fail
  /\ last.value.success = FALSE
  /\ last.net = <<YahooGet>>

GatedOps == {"getTeamFromUrl", "refreshTeamData"}

NotAuthenticatedFailure(d) ==
  d.outcome = "throw" /\ d.value = Err(NotAuthMsg) /\ d.net = <<>>

\* C3: when the session is Unauthenticated (none, or past its expiry),
\* getTeamFromUrl and refreshTeamData fail with the not-authenticated
\* error and no network request is issued before that failure.
C3_GatedWithoutSession ==
  [][last'.op \in GatedOps /\ Unauthenticated => NotAuthenticatedFailure(last')]_vars

\* refreshTeamData refused over a session that had expired
C3_Witness ==
  /\ last.op = "refreshTeamData"
  /\ NotAuthenticatedFailure(last)
  /\ last.removes = 1
  /\ now > SavedSession.expiresAt

JsonApiOps == {"getLeague", "getTeamLineup", "getLeagueWithProxy"}

Fetched == IF input.respA # Fail THEN input.respA ELSE input.respB

IsPage(resp) == resp # Fail /\ resp # NonString

Scraped == last.op = "getTeamFromUrl" /\ input.url.leagueId # <<>> /\ input.url.teamId # <<>>

\* C5 as stated: with an authenticated session, a fetched body containing
\* "login" is treated as an authentication failure: the caller is given
\* an authentication failure, not a team result.
C5_LoginPageIsAuthFailure ==
  Scraped /\ IsPage(Fetched) /\ Fetched.login => last.outcome = "throw"

\* What the code does with a login page: a team result, the placeholder
C5_LoginPageGivesPlaceholder ==
  /\ Scraped
  /\ IsPage(Fetched)
  /\ Fetched.doctype /\ Fetched.login
  /\ last.outcome = "return"
  /\ last.value.name = <<"ESPN Team ">> \o input.url.teamId

\* no strategy finds a player in the page: no embedded JSON, no known name,
\* no player row
NoPlayersFound(html) ==
  /\ html.initState = "none" /\ html.appData = "none"
  /\ html.probe = {}
  /\ \A i \in 1..Len(html.rows) : html.rows[i] # "player"

FetchFailed == input.respA = Fail /\ input.respB = Fail

Placeholder(url) ==
  createMockTeamData(url.leagueId, url.teamId,
                     IF url.season # <<>> THEN url.season ELSE CurrentYear)

\* C9 as stated: with an authenticated session getTeamFromUrl always
\* returns a result, and whenever the fetch fails or every parsing
\* strategy yields zero players that result is the deterministic
\* placeholder for (leagueId, teamId, season).
C9_PlaceholderWhenNothingParsed ==
  Scraped =>
    /\ last.outcome = "return"
    /\ (FetchFailed \/ (IsPage(Fetched) /\ NoPlayersFound(Fetched)))
         => last.value = Placeholder(input.url)

\* What the code does with a page that names the team and lists nobody:
\* a team under the parsed id and name, holding the two mock players
C9_NamedPageGivesParsedTeam ==
  /\ Scraped
  /\ IsPage(Fetched) /\ NoPlayersFound(Fetched)
  /\ last.outcome = "return"
  /\ last.value.id = <<"espn_">> \o input.url.teamId
  /\ last.value.name = <<"My Team">>
  /\ last.value.lineup.players = getMockPlayers

EspnAttempt ==
  /\ last'.op = "connectPlatform"
  /\ input'.platform \in {"espn", "ESPN"}
  /\ input'.credentials # NullCredentials
  /\ input'.credentials.teamUrl # Missing

BothProxiesFail(e) == e.respA = Fail /\ e.respB = Fail

\* C10 as stated: when both proxies fail the failure reaches the
\* dispatcher and connectPlatform('espn') returns success=false; a parse
\* failure alone never produces an error.
C10_FetchFailurePropagates ==
  [][EspnAttempt /\ ~Unauthenticated =>
       IF BothProxiesFail(input'.env)
         THEN last'.value.success = FALSE
         ELSE last'.value.success = TRUE]_vars

\* C10: with an authenticated session and a team URL, connectPlatform
\* ('espn') succeeds with exactly one team whatever the proxies answer;
\* when both proxies fail that team is the placeholder (id espn-<teamId>,
\* name 'ESPN Team <teamId>').  It returns success=false only when the
\* session is Unauthenticated, and then no request was issued.  Neither a
\* fetch failure nor a parse failure produces an error for the caller.
C10_FetchFailureIsAbsorbed ==
  [][EspnAttempt =>
       IF Unauthenticated
         THEN /\ last'.value.success = FALSE
              /\ last'.net = <<>>
         ELSE /\ last'.value.success = TRUE
              /\ Len(last'.value.teams) = 1
              /\ "error" \notin DOMAIN last'.value
              /\ BothProxiesFail(input'.env) =>
                   /\ last'.value.teams[1].id
                        = <<"espn-">> \o input'.credentials.teamUrl.teamId
                   /\ last'.value.teams[1].name
                        = <<"ESPN Team ">> \o input'.credentials.teamUrl.teamId]_vars

\* both proxies failed and the connection succeeded with the placeholder
C10_Witness ==
  /\ ConnectReturned
  /\ input.platform = "espn"
  /\ input.credentials # NullCredentials
  /\ input.credentials.teamUrl # Missing
  /\ BothProxiesFail(input.env)
  /\ last.net = <<ProxyA, ProxyB>>
  /\ last.value.success = TRUE
  /\ last.value.teams[1].id = <<"espn-", "7">>

\* authenticate has finished (returned or thrown) in this step
AuthenticateEnded == last'.op = "authenticate"

Accepted(answer) == answer # Fail /\ answer.status \in {200, 302}

\* the cookie string of a response: name=value of each Set-Cookie header
ResponseCookies(answer) ==
  IF answer.headers = NoHeader THEN <<>>
  ELSE [i \in 1..Len(answer.headers) |-> Head(answer.headers[i])]

\* C6: authenticate(user, pass): when the credential submission answers
\* 200 or 302 the session becomes Authenticated and holds the response
\* cookies, the username and expiresAt = now + 7 days; on any other status,
\* or when either request fails, authenticate throws and the in-memory
\* session and the persisted record are what they were before the call.
C6_AuthenticateOutcome ==
  [][AuthenticateEnded =>
       IF Accepted(input'.answer)
         THEN /\ last'.outcome = "return"
              /\ authSession' = [isAuthenticated |-> TRUE,
                                 cookies |-> ResponseCookies(input'.answer),
                                 username |-> input'.username,
                                 expiresAt |-> now + 7]
         ELSE /\ last'.outcome = "throw"
              /\ authSession' = authSession
              /\ storage' = storage]_vars

\* a 302 answer with two cookies made a session that expires in a week
C6_Witness ==
  /\ last.op = "authenticate"
  /\ last.outcome = "return"
  /\ input.answer.status = 302
  /\ authSession # NoSession
  /\ authSession.cookies = <<"SWID=1", "espn_s2=2">>
  /\ authSession.expiresAt = now + 7
  /\ storage # NoRecord

Expired == authSession # NoSession /\ now > authSession.expiresAt

\* C7: with expiresAt in the past isAuthenticated() returns false and
\* removes the persisted record; it does so once: the session is gone
\* afterwards, and a call that finds no session returns false without
\* touching storage.
C7_ExpiryClearsOnce ==
  [][last'.op = "isAuthenticated" =>
       /\ Expired =>
            /\ last'.value = FALSE
            /\ last'.removes = 1
            /\ storage' = NoRecord
            /\ authSession' = NoSession
       /\ authSession = NoSession =>
            /\ last'.value = FALSE
            /\ last'.removes = 0
            /\ storage' = storage
            /\ authSession' = NoSession]_vars

\* the expired session was just reported and its record removed
C7_Witness ==
  /\ last.op = "isAuthenticated"
  /\ last.value = FALSE
  /\ last.removes = 1
  /\ storage = NoRecord
  /\ authSession = NoSession

Valid == authSession # NoSession /\ now <= authSession.expiresAt

\* C8: an Authenticated session is valid while now <= expiresAt and
\* survives a restart: the constructor loads a non-expired record and
\* isAuthenticated() returns true; once now > expiresAt the adapter is
\* Unauthenticated and the record is removed, by isAuthenticated() or by
\* the constructor that discovers the expired record.
C8_ValidUntilExpiry ==
  [][/\ Valid => storage = Stringify(authSession)
     /\ last'.op = "isAuthenticated" /\ Valid =>
          last'.value = TRUE /\ authSession' = authSession /\ storage' = storage
     /\ last'.op = "constructor" /\ Valid =>
          authSession' = authSession /\ storage' = storage /\ last'.removes = 0
     /\ last'.op \in {"isAuthenticated", "constructor"} /\ Expired =>
          authSession' = NoSession /\ storage' = NoRecord /\ last'.removes = 1]_vars

\* the page was reloaded on the last day of the session and kept it
C8_Witness ==
  /\ last.op = "constructor"
  /\ authSession # NoSession
  /\ authSession.isAuthenticated
  /\ now = authSession.expiresAt
  /\ storage = Stringify(authSession)

(***************************************************************************)
(* The Player each adapter builds from one upstream roster entry           *)
(***************************************************************************)
\* the Player the Sleeper adapter builds from an entry of /players/nfl
SleeperPlayerFrom(playerId, player) ==
  [id |-> <<playerId>>,
   position |-> mapSleeperPosition(player.position),
   team |-> player.team,
   injuryStatus |-> mapSleeperInjuryStatus(player.injury_status),
   projectedPoints |-> 0]

EspnPositionIds == {0, 1, 2, 3, 4, 5, 16, 17, 99}
UpstreamPositions == {"QB", "RB", "WR", "TE", "K", "DEF", "W/R/T", "LB", ""}

EspnStatuses == {"ACTIVE", "QUESTIONABLE", "DOUBTFUL", "OUT", "", "INJURY_RESERVE", "Out"}
YahooStatuses == {"", "Q", "D", "O", "IR", "PUP-R"}
SleeperStatuses == {"", "Questionable", "Doubtful", "Out", "IR", "Q"}

MapInputs ==
  [adapter : {"ESPN"},
   entry : [playerId : {1}, defaultPositionId : EspnPositionIds, lineupSlotId : {0},
            projected : {30}, injuryStatus : EspnStatuses, proTeamId : {2}]]
  \cup [adapter : {"Yahoo"},
        entry : [player_id : {1}, display_position : UpstreamPositions,
                 selected_position : {"QB"}, projected : {30},
                 injury_status : YahooStatuses, editorial_team_abbr : {"Buf"}]]
  \cup [adapter : {"Sleeper"},
        entry : [position : UpstreamPositions, team : {"BUF"}, injury_status : SleeperStatuses]]

InitMap ==
  /\ now = 0
  /\ authSession = NoSession
  /\ storage = NoRecord
  /\ authCalls = [u \in Usernames |-> Idle]
  /\ yahooToken = Missing
  /\ appStore = InitialStore
  /\ syncCalls = NoSyncs
  /\ input \in MapInputs
  /\ last = Done("constructor", "return", <<>>, <<>>, 0)

EspnMapPlayer ==
  /\ input.adapter = "ESPN"
  /\ last' = Done("mapPlayer", "return", EspnPlayer(input.entry), <<>>, 0)
  /\ UNCHANGED <<appStore, syncCalls, now, authSession, storage, authCalls, yahooToken, input>>

YahooMapPlayer ==
  /\ input.adapter = "Yahoo"
  /\ last' = Done("mapPlayer", "return", YahooPlayer(input.entry), <<>>, 0)
  /\ UNCHANGED <<appStore, syncCalls, now, authSession, storage, authCalls, yahooToken, input>>

SleeperMapPlayer ==
  /\ input.adapter = "Sleeper"
  /\ last' = Done("mapPlayer", "return", SleeperPlayerFrom("p1", input.entry), <<>>, 0)
  /\ UNCHANGED <<appStore, syncCalls, now, authSession, storage, authCalls, yahooToken, input>>

NextMap == EspnMapPlayer \/ YahooMapPlayer \/ SleeperMapPlayer

SpecMap == InitMap /\ [][NextMap]_vars

PlayerMapped == last.op = "mapPlayer"

CanonicalPositions == {"QB", "RB", "WR", "TE", "K", "DEF", "FLEX"}

\* the upstream position has an entry in the adapter's table
PositionListed ==
  IF input.adapter = "ESPN"
    THEN input.entry.defaultPositionId \in {1, 2, 3, 4, 5, 16}
    ELSE IF input.adapter = "Yahoo"
           THEN input.entry.display_position \in {"QB", "RB", "WR", "TE", "K", "DEF"}
           ELSE input.entry.position \in {"QB", "RB", "WR", "TE", "K", "DEF"}

\* the position field is the upstream value, unchanged
PositionCopied ==
  /\ input.adapter # "ESPN"
  /\ last.value.position
       = IF input.adapter = "Yahoo" THEN input.entry.display_position ELSE input.entry.position

\* C11 as stated: whatever the upstream value, the position written into a
\* Player by each of the three position maps is one of QB, RB, WR, TE, K,
\* DEF, FLEX, and an upstream value without a table entry is never copied
\* unchanged into the position field.
C11_PositionIsCanonical ==
  PlayerMapped =>
    /\ last.value.position \in CanonicalPositions
    /\ ~PositionListed => ~PositionCopied

\* What the code does with an unlisted Yahoo position: it is the Player's
\* position
C11_UnlistedPositionCopied ==
  /\ PlayerMapped
  /\ input.adapter = "Yahoo"
  /\ input.entry.display_position = "LB"
  /\ last.value.position = "LB"

CanonicalStatuses == {"healthy", "questionable", "doubtful", "out"}

UpstreamStatus ==
  IF input.adapter = "ESPN" THEN input.entry.injuryStatus ELSE input.entry.injury_status

StatusListed ==
  IF input.adapter = "ESPN"
    THEN UpstreamStatus \in {"ACTIVE", "QUESTIONABLE", "DOUBTFUL", "OUT"}
    ELSE IF input.adapter = "Yahoo"
           THEN UpstreamStatus \in {"", "Q", "D", "O"}
           ELSE UpstreamStatus \in {"", "Questionable", "Doubtful", "Out"}

YahooAttempt ==
  /\ last'.op = "connectPlatform"
  /\ input'.platform = "Yahoo"
  /\ input'.credentials # NullCredentials

Mentions(msg, words) == \E i \in 1..Len(msg) : msg[i] = words

\* C13: connectPlatform('yahoo', credentials) without an accessToken
\* returns success=false with an error that mentions the missing access
\* token; no network call is made and the Yahoo adapter's token is not
\* touched.
C13_MissingYahooToken ==
  [][YahooAttempt /\ input'.credentials.accessToken = Missing =>
       /\ last'.outcome = "return"
       /\ last'.value.success = FALSE
       /\ Mentions(last'.value.error, "Yahoo requires access token")
       /\ last'.net = <<>>
       /\ yahooToken' = yahooToken]_vars

\* a call without token was refused while the adapter held an earlier token
C13_Witness ==
  /\ ConnectReturned
  /\ input.platform = "Yahoo"
  /\ input.credentials # NullCredentials
  /\ input.credentials.accessToken = Missing
  /\ input.env.yahoo # Fail
  /\ last.value.success = FALSE
  /\ last.net = <<>>
  /\ yahooToken = S("tokA")

\* a required credential field is missing from the credentials map
LacksRequiredField ==
  /\ input.credentials # NullCredentials
  /\ \/ input.platform \in {"espn", "ESPN"} /\ input.credentials.teamUrl = Missing
     \/ /\ input.platform = "sleeper"
        /\ (input.credentials.leagueId = Missing \/ input.credentials.teamId = Missing)
     \/ /\ input.platform = "Yahoo"
        /\ \/ input.credentials.accessToken = Missing
           \/ input.credentials.leagueId = Missing
           \/ input.credentials.teamId = Missing

\* C14 as stated: the dispatcher validates every required credential field
\* before any adapter network call: connectPlatform returns success=false
\* without network I/O when ESPN lacks the team URL, Sleeper lacks leagueId
\* or teamId, or Yahoo lacks the access token, the leagueId or the teamId.
C14_ValidatedBeforeNetwork ==
  ConnectReturned /\ LacksRequiredField =>
    last.value.success = FALSE /\ last.net = <<>>

\* What the code does for Yahoo credentials that hold a token but no
\* leagueId: the token is installed and the leagues are requested
C14_YahooRequestsWithoutLeagueId ==
  /\ ConnectReturned
  /\ input.platform = "Yahoo"
  /\ input.credentials # NullCredentials
  /\ input.credentials.accessToken = S("tokA")
  /\ input.credentials.leagueId = Missing
  /\ last.net = <<YahooGet>>
  /\ yahooToken = S("tokA")
  /\ last.value.success = FALSE

\* the team id names one of the rosters the league's endpoint answered
NamesARoster ==
  /\ input.env.sleeper # Fail
  /\ \E i \in 1..Len(input.env.sleeper.rosters) :
        Template(input.env.sleeper.rosters[i].roster_id) = Template(input.credentials.teamId)

\* C15 as stated: for Sleeper, given a league id that exists upstream and
\* a team id that names one of that league's rosters, connectPlatform
\* returns success=true with exactly one FantasyTeam whose id is
\* "sleeper-" followed by the team id.
C15_SleeperScenarioA ==
  /\ ConnectReturned
  /\ input.platform = "sleeper"
  /\ input.credentials # NullCredentials
  /\ input.credentials.leagueId # Missing
  /\ input.credentials.teamId # Missing
  /\ NamesARoster
  => /\ last.value.success = TRUE
     /\ Len(last.value.teams) = 1
     /\ last.value.teams[1].id = <<"sleeper-">> \o Template(input.credentials.teamId)

\* What the code does when the roster ids arrive as JSON numbers: team "1"
\* is not found among the rosters
C15_NumericRosterIdNotFound ==
  /\ ConnectReturned
  /\ input.platform = "sleeper"
  /\ input.credentials # NullCredentials
  /\ input.credentials.teamId = S("1")
  /\ input.env.sleeper = SleeperDoc(<<N(1)>>)
  /\ last.value.success = FALSE
  /\ Mentions(last.value.error, " not found in league ")

\* The id prefix that goes with a platform tag
IdPrefix(platform) ==
  CASE platform = "ESPN" -> "espn-"
    [] platform = "Yahoo" -> "yahoo-"
    [] platform = "Sleeper" -> "sleeper-"

\* A call that returned a successful ConnectionResult
ConnectionSucceeded ==
  /\ last.op \in {"connectPlatform", "createESPNTeamFromHTML"}
  /\ last.outcome = "return"
  /\ last.value.success = TRUE

\* The team id the upstream system knows the team by
UpstreamTeamId ==
  IF last.op = "createESPNTeamFromHTML" THEN OrDefault(input.teamId, <<"7">>)
  ELSE IF last.value.platform = "ESPN" THEN input.credentials.teamUrl.teamId
  ELSE Template(input.credentials.teamId)

\* C16 as stated: every FantasyTeam in a successful ConnectionResult
\* (connectPlatform or createESPNTeamFromHTML) has an id of the form
\* '<prefix>-<upstream team id>' with the prefix of its platform, and
\* getTeamLineup recovers the upstream id by stripping that prefix.
C16_IdIsPrefixedUpstreamId ==
  ConnectionSucceeded =>
    \A i \in 1..Len(last.value.teams) :
      /\ last.value.teams[i].id = <<IdPrefix(last.value.platform)>> \o UpstreamTeamId
      /\ replace(last.value.teams[i].id, IdPrefix(last.value.teams[i].platform)) = UpstreamTeamId

\* What the code does with a scraped page that carries a team name: the
\* dispatcher prefixes the scraper's own 'espn_7', and stripping 'espn-'
\* leaves 'espn_7'
C16_ScrapedIdKeepsScraperTag ==
  /\ ConnectReturned
  /\ ConnectionSucceeded
  /\ last.value.platform = "ESPN"
  /\ last.value.teams[1].id = <<"espn-", "espn_", "7">>
  /\ replace(last.value.teams[1].id, "espn-") = <<"espn_", "7">>

\* What createESPNTeamFromHTML returns: the scraper's team unprefixed
C16_HtmlTeamHasNoPrefix ==
  /\ last.op = "createESPNTeamFromHTML"
  /\ last.value.success = TRUE
  /\ last.value.teams[1].id \in {<<"espn_", "7">>, <<"3">>}

\* C17 as stated: updateTeamLineup never throws, for CBS teams too: it
\* returns false for any failed or unsupported update and true only when
\* the upstream call answered HTTP 200; the ESPN adapter's update always
\* returns false without a network call.
C17_UpdateNeverThrows ==
  last.op = "updateTeamLineup" =>
    /\ last.outcome = "return"
    /\ (input.answer = Fail \/ input.platform \notin {"Yahoo", "Sleeper"}) => last.value = FALSE
    /\ last.value = TRUE => input.answer = [status |-> 200]
    /\ input.platform = "ESPN" => last.value = FALSE /\ last.net = <<>>

\* What the code does for a CBS team: the switch's default branch throws
C17_CbsUpdateThrows ==
  /\ last.op = "updateTeamLineup"
  /\ input.platform = "CBS"
  /\ last.outcome = "throw"
  /\ last.value = Err(<<"Unsupported platform: ", "CBS">>)

\* The dispatcher call that just ended failed
ConnectFailed ==
  last'.outcome = "throw" \/ last'.value.success = FALSE

\* C19 as stated: apart from the ESPN session the adapters keep no mutable
\* state shared between calls: a dispatcher call cannot change the
\* credentials another call uses (the token the Yahoo adapter holds for
\* an earlier call), and a failed call leaves every adapter as it was.
C19_NoSharedAdapterState ==
  [][last'.op = "connectPlatform" =>
       /\ yahooToken # Missing => yahooToken' = yahooToken
       /\ ConnectFailed => yahooToken' = yahooToken]_vars

\* What the code does: a Yahoo call that fails after its token test has
\* already installed its token in the one shared adapter
C19_FailedCallInstalledToken ==
  /\ ConnectReturned
  /\ input.platform = "Yahoo"
  /\ input.credentials # NullCredentials
  /\ input.credentials.accessToken = S("tokB")
  /\ last.value.success = FALSE
  /\ yahooToken = S("tokB")

\* authenticate returned a session in this step, and another authenticate
\* call had returned one while this call was in flight
SecondOfTwoOverlapping ==
  /\ last'.op = "authenticate"
  /\ last'.outcome = "return"
  /\ input'.overlapped

\* C18: if two authenticate calls overlap and both succeed, the last
\* writer wins: the session in memory and the persisted record are both
\* the ones written by the call that completed last, and they agree.
C18_LastWriterWins ==
  [][SecondOfTwoOverlapping =>
       /\ authSession' = last'.value
       /\ authSession'.username = input'.username
       /\ storage' = Stringify(last'.value)
       /\ Parse(storage') = authSession']_vars

\* u2's call returned after u1's call had returned during u2's run
C18_Witness ==
  /\ last.op = "authenticate"
  /\ last.outcome = "return"
  /\ input.overlapped
  /\ input.username = "u2"
  /\ authSession # NoSession
  /\ authSession.username = "u2"
  /\ storage = Stringify(authSession)

\* The user disconnected ESPN and confirmed the dialog in this step
EspnDisconnected ==
  /\ last'.op = "disconnectPlatform"
  /\ input'.platform = "ESPN"
  /\ input'.confirmed

\* C20 as stated: when the user explicitly disconnects the ESPN platform
\* the persisted session record is removed and the adapter is
\* Unauthenticated afterwards: isAuthenticated() returns false.
C20_DisconnectClearsSession ==
  [][EspnDisconnected =>
       /\ storage' = NoRecord
       /\ ~isAuthenticated(authSession', storage', now').ret]_vars

\* What the code does: ESPN's connections and teams leave the store while
\* the session and its persisted record stay
C20_SessionSurvivesDisconnect ==
  /\ last.op = "disconnectPlatform"
  /\ input.platform = "ESPN"
  /\ input.confirmed
  /\ last.value.connections = <<"Yahoo">>
  /\ last.value.teams = <<"Yahoo">>
  /\ storage # NoRecord
  /\ isAuthenticated(authSession, storage, now).ret

(***************************************************************************)
(* getTeamLineup called again and again with the same arguments over an    *)
(* upstream that does not change, while time passes between the calls      *)
(***************************************************************************)
\* Eleven starters: nine starting slots and two on the bench
LongMatchup == <<"p1", "p2", "0", "p9", "p1", "p1", "p1", "p1", "p1", "p2", "p9">>

RepeatInputs ==
  [adapter : {"ESPN"}, teamId : {<<"7">>, <<"9">>},
   resp : {Fail} \cup {EspnLeagueDoc(Numbered(r, "playerId")) : r \in SeqsUpTo(EspnEntries, 1)}]
  \cup [adapter : {"Yahoo"}, teamId : {<<"1">>},
        resp : {Fail} \cup {YahooRoster(Numbered(r, "player_id")) : r \in SeqsUpTo(YahooEntries, 1)}]
  \cup [adapter : {"Sleeper"}, teamId : {N(1), S("1")},
        resp : {Fail, SleeperLineupDoc(N(1), <<>>),
                SleeperLineupDoc(N(1), Matchup(N(1), <<"p1", "0", "p2">>)),
                SleeperLineupDoc(N(1), Matchup(N(1), LongMatchup))}]

InitRepeat ==
  /\ now = 0
  /\ authSession = NoSession
  /\ storage = NoRecord
  /\ authCalls = [u \in Usernames |-> Idle]
  /\ yahooToken = Missing
  /\ appStore = InitialStore
  /\ syncCalls = NoSyncs
  /\ input \in RepeatInputs
  /\ last = Done("constructor", "return", <<>>, <<>>, 0)

\* Time passes after a call has ended
TimePasses ==
  /\ last.op = "getTeamLineup"
  /\ now < MaxTime
  /\ now' = now + 1
  /\ UNCHANGED <<appStore, syncCalls, authSession, storage, authCalls, yahooToken, input, last>>

NextRepeat ==
  \/ EspnGetTeamLineup
  \/ YahooGetTeamLineup
  \/ SleeperGetTeamLineup
  \/ TimePasses

SpecRepeat == InitRepeat /\ [][NextRepeat]_vars

\* The call that ends in this step repeats the call that ended before it
RepeatedCall ==
  /\ last.op = "getTeamLineup"
  /\ last'.op = "getTeamLineup"
  /\ input' = input

\* Two Lineups equal in every field except lastUpdated
SameButLastUpdated(a, b) == [a EXCEPT !.lastUpdated = 0] = [b EXCEPT !.lastUpdated = 0]

RECURSIVE Contacts(_, _)
Contacts(net, p) ==
  IF net = <<>> THEN 0
  ELSE (IF Head(net) = p THEN 1 ELSE 0) + Contacts(Tail(net), p)

\* A scrape (getTeamFromUrl, directly or through refreshTeamData) ended
ScrapeEnded == last.op \in {"getTeamFromUrl", "refreshTeamData"}

\* C22: getTeamFromUrl tries the proxies in a fixed order and stops at the
\* first success: the cookie-forwarding proxy A is contacted first, proxy
\* B only after A has failed and never when A succeeded, and no proxy is
\* contacted more than once in a call.
C22_ProxyOrder ==
  ScrapeEnded =>
    /\ last.net # <<>> => Head(last.net) = ProxyA
    /\ Contacts(last.net, ProxyB) > 0 => input.respA = Fail /\ last.net = <<ProxyA, ProxyB>>
    /\ input.respA # Fail => Contacts(last.net, ProxyB) = 0
    /\ Contacts(last.net, ProxyA) <= 1
    /\ Contacts(last.net, ProxyB) <= 1
    /\ Len(last.net) = Contacts(last.net, ProxyA) + Contacts(last.net, ProxyB)

\* proxy A failed and proxy B delivered the team page
C22_Witness ==
  /\ last.op = "getTeamFromUrl"
  /\ last.outcome = "return"
  /\ input.respA = Fail
  /\ input.respB = Page(TRUE, FALSE, "none", <<"My Team">>)
  /\ last.net = <<ProxyA, ProxyB>>
  /\ last.value.name = <<"My Team">>

\* The page handed to parseTeamPage: a fetched page that is no login page
Parsed == Scraped /\ IsPage(Fetched) /\ ~GotLoginPage(Fetched)

\* The page embeds a JSON state blob that parses
HasParsableBlob(html) == html.initState = "valid" \/ html.appData = "valid"

\* The team the structured (JSON) strategy makes of the page
StructuredTeam(url, html) ==
  parseJSONTeamData(<<"blob">>, url.leagueId, url.teamId,
                    IF url.season # <<>> THEN url.season ELSE CurrentYear,
                    extractTeamName(html))

\* C23 as stated: parseTeamPage gives the structured strategy priority:
\* whenever the HTML contains an embedded JSON state blob that parses, the
\* returned team is the structured strategy's output, even if the page
\* also holds roster rows or known player names.
C23_StructuredHasPriority ==
  Parsed /\ HasParsableBlob(Fetched) =>
    /\ last.outcome = "return"
    /\ last.value = StructuredTeam(input.url, Fetched)

\* What the code does when window.__INITIAL_STATE__ is present but does
\* not parse: the parsable window.__APP_DATA__ is never looked at and the
\* HTML strategy's team is returned
C23_BrokenFirstBlobHidesSecond ==
  /\ Parsed
  /\ Fetched.initState = "invalid"
  /\ Fetched.appData = "valid"
  /\ Fetched.teamName = <<"My Team">>
  /\ last.outcome = "return"
  /\ last.value.id = <<"espn_">> \o input.url.teamId
  /\ last.value # StructuredTeam(input.url, Fetched)

\* The page went through the HTML strategy: no JSON blob was extracted
\* and a team name was found, so the returned team lists extractPlayers'
\* result
HtmlStrategyUsed ==
  Parsed /\ extractJSONData(Fetched) = NoJson /\ Fetched.teamName # <<>>

\* The players the stated order gives: table rows first, the name probe
\* when the rows gave nobody, the mock players when both gave nobody
RowsThenProbe(html) ==
  IF Len(RowPlayers(html.rows, 1, <<>>)) > 0 THEN RowPlayers(html.rows, 1, <<>>)
  ELSE IF Len(ProbePlayers(html, 1, <<>>)) > 0 THEN ProbePlayers(html, 1, <<>>)
  ELSE getMockPlayers

\* C24 as stated: table-row extraction is attempted before name-probe
\* extraction: the name probe's players are used only when the table rows
\* produced none, and the mock players only when both produced none.
C24_RowsBeforeProbe ==
  HtmlStrategyUsed =>
    /\ last.outcome = "return"
    /\ last.value.lineup.players = RowsThenProbe(Fetched)

\* What the code does with a page holding a player row and a known name:
\* the name probe runs first and its player is returned
C24_ProbeWinsOverRows ==
  /\ HtmlStrategyUsed
  /\ Fetched.rows = <<"player">>
  /\ Fetched.probe = {"Lions"}
  /\ last.value.lineup.players = ProbePlayers(Fetched, 1, <<>>)
  /\ last.value.lineup.players # RowPlayers(Fetched.rows, 1, <<>>)

\* u's call waits for the login page / for the answer to its submission
AwaitsLoginPage(calls, u) == calls[u] # Idle /\ calls[u].stage = "login"
AwaitsSubmission(calls, u) == calls[u] # Idle /\ calls[u].stage = "submit"

\* C25: authenticate performs its steps in order: the credentials are
\* submitted only after the login page was fetched successfully, and when
\* the login-page fetch fails no submission is sent and the session (in
\* memory and persisted) is left unchanged.
C25_LoginPageBeforeSubmission ==
  [][\A u \in Usernames :
       /\ AwaitsSubmission(authCalls', u) /\ ~AwaitsSubmission(authCalls, u) =>
            /\ AwaitsLoginPage(authCalls, u)
            /\ input' = [username |-> u, answer |-> [page |-> TRUE]]
            /\ authCalls'[u].net = <<"GET login", "POST login">>
       /\ AwaitsLoginPage(authCalls, u) /\ input' = [username |-> u, answer |-> Fail] =>
            /\ last'.op = "authenticate"
            /\ last'.outcome = "throw"
            /\ last'.net = <<"GET login">>
            /\ authCalls'[u] = Idle
            /\ authSession' = authSession
            /\ storage' = storage]_vars

\* the login-page fetch of a second login failed while a session existed:
\* authenticate threw after the GET alone and the session is still there
C25_Witness ==
  /\ last.op = "authenticate"
  /\ last.outcome = "throw"
  /\ last.net = <<"GET login">>
  /\ input.answer = Fail
  /\ authSession # NoSession
  /\ storage = Stringify(authSession)
  /\ authCalls[input.username] = Idle

\* C26: after any sequence of adapter construction, authenticate,
\* isAuthenticated and clearSession (run on expiry), the in-memory session
\* and the persisted record agree: a record is stored if and only if the
\* in-memory session is non-null, and then both hold the same cookies,
\* username and expiresAt.
C26_SessionMatchesRecord ==
  /\ storage # NoRecord <=> authSession # NoSession
  /\ authSession # NoSession =>
       /\ Parse(storage).cookies = authSession.cookies
       /\ Parse(storage).username = authSession.username
       /\ Parse(storage).expiresAt = authSession.expiresAt

\* a page reload on a later day read u2's record back into memory
C26_Witness ==
  /\ last.op = "constructor"
  /\ now > 0
  /\ authSession # NoSession
  /\ authSession.username = "u2"
  /\ authSession.cookies = <<"SWID=1", "espn_s2=2">>
  /\ storage = Stringify(authSession)

\* The starting slots of the lineup that hold the player with this id
SlotsHolding(lineup, id) ==
  {k \in StartingSlots(lineup) : ~IsArray(lineup.players[k]) /\ lineup.players[k].player.id = id}

\* The ids of the upstream roster entries that sit in a slot the adapter
\* maps to a starting slot
UpstreamStarterIds ==
  CASE input.adapter = "ESPN" ->
         LET roster == FindEspnTeam(input.resp.teams, input.teamId).roster
         IN  {<<ToString(roster[i].playerId)>> : i \in
                {j \in 1..Len(roster) :
                   mapESPNLineupPosition(roster[j].lineupSlotId) \notin {NoSlot, "BENCH"}}}
    [] input.adapter = "Yahoo" ->
         LET roster == input.resp.roster
         IN  {<<ToString(roster[i].player_id)>> : i \in
                {j \in 1..Len(roster) :
                   mapYahooLineupPosition(roster[j].selected_position) \notin {NoSlot, "BENCH"}}}
    [] OTHER -> {}

\* C27 as stated: lineup normalisation loses no starter: each upstream
\* roster entry placed in a non-bench slot appears in exactly one starting
\* slot of the returned Lineup, each starting slot holds at most one
\* Player, and BENCH (when present) is a list.
C27_NoStarterLost ==
  ReturnedLineup =>
    /\ \A id \in UpstreamStarterIds : Cardinality(SlotsHolding(last.value, id)) = 1
    /\ \A k \in StartingSlots(last.value) : ~IsArray(last.value.players[k])
    /\ "BENCH" \in DOMAIN last.value.players => IsArray(last.value.players["BENCH"])

\* What the code does with two Yahoo players who both start at RB: both
\* are written to RB1 and only the second one is left in the Lineup
C27_SecondRunningBackReplacesFirst ==
  /\ ReturnedLineup
  /\ input.adapter = "Yahoo"
  /\ Len(input.resp.roster) = 2
  /\ input.resp.roster[1].selected_position = "RB"
  /\ input.resp.roster[2].selected_position = "RB"
  /\ StartingSlots(last.value) = {"RB1"}
  /\ last.value.players["RB1"].player.id = <<"2">>
  /\ SlotsHolding(last.value, <<"1">>) = {}

\* At least one syncTeam call is in flight
SyncInFlight(calls) == \E c \in SyncCallers : calls[c] # NoSync

\* A step of a syncTeam call: its start or its end
SyncStep == last'.op \in {"syncTeam", "syncTeam-call"}

\* C28 as stated: isLoading is true whenever at least one syncTeam call is
\* in flight (with overlapping calls it becomes false only when the last
\* of them has finished), and an error recorded by one call is not erased
\* by another call that is still running or starts later.
C28_LoadingWhileInFlight ==
  [][SyncStep =>
       /\ SyncInFlight(syncCalls') => appStore'.isLoading
       /\ appStore.error # NoError => appStore'.error # NoError]_vars

\* What the code does when one of two overlapping calls ends: isLoading
\* is false while the other call is still in flight
C28_LoadingEndsWithFirstCall ==
  /\ last.op = "syncTeam"
  /\ input.caller = "c1"
  /\ syncCalls["c2"] # NoSync
  /\ ~appStore.isLoading

\* The number of lineups with this id
RECURSIVE LineupsWithId(_, _)
LineupsWithId(lineups, id) ==
  IF lineups = <<>> THEN 0
  ELSE (IF Head(lineups).id = id THEN 1 ELSE 0) + LineupsWithId(Tail(lineups), id)

UniqueLineupIds(lineups) ==
  \A i \in 1..Len(lineups) : LineupsWithId(lineups, lineups[i].id) = 1

\* The call ended in failure: team not found, or the lineup fetch failed
SyncFailed ==
  last'.op = "syncTeam" /\ last'.value \in {<<"Team not found">>, <<"throw">>}

SyncSucceeded == last'.op = "syncTeam" /\ last'.value = <<"return">>

\* The lineup a successful sync put into the store
FetchedLineup == appStore'.lineups[Len(appStore'.lineups)]

\* C29: syncTeam(teamId) changes the store only as follows: when the team
\* is not in the store or the lineup fetch fails, teams and lineups are
\* unchanged, error is set and isLoading ends false; on success only that
\* team's lastSyncDate changes among teams, lineups then holds exactly one
\* lineup with the fetched lineup's id and every other lineup untouched;
\* lineup ids stay unique.
C29_SyncFrame ==
  [][/\ last'.op = "syncTeam-call" =>
          appStore'.teams = appStore.teams /\ appStore'.lineups = appStore.lineups
     /\ SyncFailed =>
          /\ appStore'.teams = appStore.teams
          /\ appStore'.lineups = appStore.lineups
          /\ appStore'.error = SyncFailedMsg
          /\ ~appStore'.isLoading
     /\ SyncSucceeded =>
          /\ Len(appStore'.teams) = Len(appStore.teams)
          /\ \A i \in 1..Len(appStore.teams) :
               appStore'.teams[i] =
                 IF appStore.teams[i].id = input'.teamId
                   THEN [appStore.teams[i] EXCEPT !.lastSyncDate = now]
                   ELSE appStore.teams[i]
          /\ Len(appStore'.lineups) > 0
          /\ LineupsWithId(appStore'.lineups, FetchedLineup.id) = 1
          /\ WithoutLineup(appStore'.lineups, FetchedLineup.id)
               = WithoutLineup(appStore.lineups, FetchedLineup.id)
          /\ ~appStore'.isLoading
     /\ SyncStep => UniqueLineupIds(appStore'.lineups)]_vars

\* a week after both teams were synced the ESPN team was synced again: its
\* lineup is the newer one and the Sleeper team's lineup is as it was
C29_Witness ==
  /\ last.op = "syncTeam"
  /\ last.value = <<"return">>
  /\ input.teamId = <<"espn-", "7">>
  /\ now > 0
  /\ Len(appStore.lineups) = 2
  /\ appStore.lineups[1].lastUpdated = 0
  /\ appStore.lineups[2].lastUpdated = now
  /\ appStore.teams[1].lastSyncDate = now
  /\ appStore.teams[2].lastSyncDate = 0

\* C30 as stated: the Lineup the dispatcher's getTeamLineup(team, week)
\* returns has teamId equal to team.id, so every lineup in the store
\* matches the id of a team in the store.
C30_LineupOwnedByTeam ==
  \A i \in 1..Len(appStore.lineups) :
    \E j \in 1..Len(appStore.teams) :
      appStore.teams[j].id = appStore.lineups[i].teamId

\* What the code does: the ESPN team 'espn-7' was synced and its lineup
\* carries the id the adapter was called with, '7', which no team has
C30_LineupCarriesStrippedId ==
  /\ last.op = "syncTeam"
  /\ last.value = <<"return">>
  /\ input.teamId = <<"espn-", "7">>
  /\ appStore.lineups[Len(appStore.lineups)].teamId = <<"7">>
  /\ FindTeam(appStore.teams, <<"7">>) = Missing

====
